---- MODULE Spec2Model ----
(***************************************************************************)
(* A model of the cluster state machine of the Hazelcast Python client:    *)
(* the partition service (hazelcast/partition.py), the cluster service     *)
(* (hazelcast/cluster.py), the lifecycle service (hazelcast/lifecycle.py),  *)
(* the TLS set-up of a connection (hazelcast/reactor.py), the              *)
(* construction of a client, which starts the services in order, the       *)
(* vector clock and the load balancers (hazelcast/cluster.py), and the      *)
(* reactor with its timers and connections (hazelcast/reactor.py): the     *)
(* timer queue, shutdown, the write queue of a connection at the           *)
(* granularity of the statements of _write and handle_write, the read      *)
(* and write events that end with an error, and _check_timers at the       *)
(* granularity of its statements, with callbacks that add and cancel       *)
(* timers.  It also covers the queue proxy (hazelcast/proxy/queue.py),     *)
(* the distinct values aggregator (hazelcast/proxy/aggregator.py), the     *)
(* protocol options of the TLS context, and a load balancer registered     *)
(* as a membership listener of the cluster service.                        *)
(*                                                                         *)
(* Every public operation of a service is one action.  The variable        *)
(* lastCall records the operation that produced the current state with     *)
(* its arguments, callLog the listener callbacks that operation invoked    *)
(* and closeLog the connections it closed; they are history variables,     *)
(* dropped when the call has returned, and no operation depends on what    *)
(* they record.                                                            *)
(***************************************************************************)
EXTENDS Integers, Sequences, FiniteSets, TLC

VARIABLES
    partition_table,        \* _InternalPartitionService._partition_table
    partition_count,        \* _InternalPartitionService.partition_count
    member_list_snapshot,   \* _InternalClusterService._member_list_snapshot
    cluster_listeners,      \* _InternalClusterService._listeners
    initial_list_fetched,   \* _InternalClusterService._initial_list_fetched
    active_connections,     \* the connection manager's member uuid -> connection
    viewHistory,            \* history: the members views handled so far
    running,                \* _InternalLifecycleService.running
    lifecycle_listeners,    \* _InternalLifecycleService._listeners
    registrations,          \* number of registration ids handed out so far
    service,                \* the service a behaviour of SpecListeners exercises
    client,                 \* HazelcastClient: its configuration and how far
                            \* its construction has come
    lastCall,               \* history: the last operation and its arguments
    callLog,                \* history: callbacks invoked by the last operation
    closeLog,               \* history: connections closed by the last operation
    vector_clocks,          \* VectorClock._replica_timestamps of each clock
    lb_members,             \* AbstractLoadBalancer._members
    lb_idx,                 \* RoundRobinLB._idx
    nextLog,                \* history: the next() calls since _members was set
    reactor_is_live,        \* AsyncoreReactor._is_live
    reactor_thread,         \* AsyncoreReactor._thread and how far it has run
    timers,                 \* AsyncoreReactor._timers.queue, the heap list
    timer_objects,          \* the Timer objects created so far
    now,                    \* time.time()
    socket_map,             \* AsyncoreReactor._map
    connection_states,      \* Connection.live and the cause of its close
    invocations,            \* the invocation service's correlation table
    timerLog,               \* history: the timer callbacks invoked so far
    write_queue,            \* AsyncoreConnection._write_queue
    write_lock,             \* AsyncoreConnection._write_lock: its holder
    sent_protocol_bytes,    \* AsyncoreConnection.sent_protocol_bytes
    threads,                \* where each thread is in _write or handle_write
    socket_bytes,           \* history: the bytes handed to the socket, in order
    queue_items,            \* the items of the distributed queue, on its member
    aggregators,            \* the DistinctValuesAggregator instances made so far
    class_values,           \* the set DistinctValuesAggregator.values
    checking,               \* where the reactor thread is in _check_timers
    ssl_context             \* ssl_context of AsyncoreConnection.__init__

\* The state of the partition, cluster and lifecycle services and of the
\* client that owns them.
serviceVars == <<partition_table, partition_count, member_list_snapshot,
                 cluster_listeners, initial_list_fetched, active_connections,
                 viewHistory, running, lifecycle_listeners, registrations,
                 service, client>>

vectorClockVars == <<vector_clocks>>

loadBalancerVars == <<lb_members, lb_idx, nextLog>>

reactorVars == <<reactor_is_live, reactor_thread, timers, timer_objects, now,
                 socket_map, connection_states, invocations,
                 timerLog>>

connectionVars == <<write_queue, write_lock, sent_protocol_bytes, threads,
                    socket_bytes>>

proxyVars == <<queue_items, aggregators, class_values>>

checkVars == <<checking>>

tlsVars == <<ssl_context>>

\* The proxies, the TLS context and the position of the reactor thread.
otherVars == <<proxyVars, checkVars, tlsVars>>

\* The objects the services hold no reference to.
objectVars == <<vectorClockVars, loadBalancerVars, reactorVars, connectionVars,
                otherVars>>

vars == <<serviceVars, lastCall, callLog, closeLog, objectVars>>

\* Python's None.
None == "None"

\* The value of client while a service is exercised on its own, without a
\* client being constructed around it.
NoClient == [step |-> "none"]

----------------------------------------------------------------------------
(* Bounds of the model.                                                    *)

\* Partition ids are 0 .. NumPartitions - 1.
NumPartitions == 2
\* Versions carried by partition and members views are 0 .. MaxVersion.
MaxVersion == 1
\* Registration ids handed out by add_listener over one behaviour.
MaxRegistrations == 2
\* Partition counts a member reports are 1 .. MaxPartitionCount, and the
\* usual count of a cluster.
MaxPartitionCount == 3
\* Keys given to string_partition_strategy have up to MaxKeyLen characters.
MaxKeyLen == 3

\* Logical timestamps of a vector clock are 1 .. MaxTimestamp.
MaxTimestamp == 5

\* next() is called on a load balancer up to MaxNextCalls times.
MaxNextCalls == 6

\* A reactor creates up to MaxTimers timers; the clock shows 0 .. MaxTime and
\* so do the deadlines.
MaxTimers == 3
MaxTime == 3
\* The invocation service makes up to MaxInvocations invocations.
MaxInvocations == 1

\* A frame given to _write has FrameLen bytes.
FrameLen == 2

\* The capacity of the distributed queue, in items.
QueueCapacity == 2


\* Logical timestamps of the three clocks that are compared with one
\* another are 1 .. MaxOrderTimestamp.
MaxOrderTimestamp == 2


PartitionIds == 0 .. (NumPartitions - 1)
Versions == 0 .. MaxVersion
\* Member uuids.
Uuids == {"A", "B", "C"}
\* Members that own partitions.
PartitionOwners == {"A", "B"}
\* Connections a partitions view can arrive on.
Connections == {"connX", "connY"}

\* The sequences without repetition over the set S.
RECURSIVE Arrangements(_)
Arrangements(S) ==
    {<<>>} \cup UNION {{<<x>> \o t : t \in Arrangements(S \ {x})} : x \in S}

\* The arrangements of the whole of S.
Permutations_(S) == {p \in Arrangements(S) : Len(p) = Cardinality(S)}

Range(s) == {s[i] : i \in 1 .. Len(s)}

----------------------------------------------------------------------------
(* hazelcast/partition.py                                                  *)

\* _PartitionTable(connection, version, partitions); partitions is a dict,
\* modelled as a function whose domain is the set of keys.
PartitionTable(connection, version, partitions) ==
    [connection |-> connection, version |-> version, partitions |-> partitions]

EmptyDict == [p \in {} |-> None]

\* _InternalPartitionService.__init__
InitialPartitionTable == PartitionTable(None, -1, EmptyDict)

\* The payload of a partitions view: a list of (uuid, partition_list)
\* pairs, one per member of the cluster that sends it.  Lists of different
\* members may overlap.
PartitionEntries ==
    UNION {{[i \in 1 .. Len(us) |-> <<us[i], f[i]>>] :
               f \in [1 .. Len(us) -> SUBSET PartitionIds]} :
           us \in Arrangements(PartitionOwners)}

\* _should_be_applied.  ShouldBeAppliedStale is the faulty variant that
\* accepts a same-source view of an equal version.
ShouldBeAppliedStale(connection, partitions, version, current) ==
    IF Len(partitions) = 0 THEN FALSE
    ELSE IF connection # current.connection THEN TRUE
    ELSE IF version < current.version THEN FALSE
    ELSE TRUE

ShouldBeApplied(connection, partitions, version, current) ==
    IF Len(partitions) = 0 THEN FALSE
    ELSE IF connection # current.connection THEN TRUE
    ELSE IF version <= current.version THEN FALSE
    ELSE TRUE

\* _prepare_partitions: the dict built by assigning new_partitions[p] = uuid
\* for every pair in order, so a later pair overwrites an earlier one.
RECURSIVE PreparePartitionsFrom(_, _, _)
PreparePartitionsFrom(partitions, i, new_partitions) ==
    IF i > Len(partitions) THEN new_partitions
    ELSE PreparePartitionsFrom(partitions, i + 1,
            [p \in (DOMAIN new_partitions) \cup partitions[i][2] |->
                IF p \in partitions[i][2] THEN partitions[i][1]
                ELSE new_partitions[p]])

PreparePartitions(partitions) == PreparePartitionsFrom(partitions, 1, EmptyDict)

\* The table handle_partitions_view_event leaves.  Faulty variants:
\* NewPartitionTableMerged updates the old dict in place of building a fresh
\* one, NewPartitionTableTouched records the version of a rejected view.
NewPartitionTableMerged(connection, partitions, version, table) ==
    IF ~ShouldBeApplied(connection, partitions, version, table) THEN table
    ELSE PartitionTable(connection, version,
                        PreparePartitionsFrom(partitions, 1, table.partitions))

NewPartitionTableTouched(connection, partitions, version, table) ==
    IF ~ShouldBeApplied(connection, partitions, version, table)
    THEN PartitionTable(table.connection, version, table.partitions)
    ELSE PartitionTable(connection, version, PreparePartitions(partitions))

NewPartitionTable(connection, partitions, version, table) ==
    IF ~ShouldBeApplied(connection, partitions, version, table) THEN table
    ELSE PartitionTable(connection, version, PreparePartitions(partitions))

\* get_partition_owner: table.partitions.get(partition_id, None)
GetPartitionOwnerIn(table, partition_id) ==
    IF partition_id \in DOMAIN table.partitions
    THEN table.partitions[partition_id]
    ELSE None

get_partition_owner(partition_id) == GetPartitionOwnerIn(partition_table, partition_id)

\* The record of lastCall between two calls.
NoCall == [op |-> "none"]

\* The operations of a service are called one at a time: a call is made when
\* the record of the previous one has been dropped.
Idle == lastCall = NoCall

\* The caller has seen the call return; its record is dropped.
call_returned ==
    /\ lastCall # NoCall
    /\ lastCall' = NoCall
    /\ callLog' = <<>>
    /\ closeLog' = {}
    /\ UNCHANGED <<partition_table, partition_count, member_list_snapshot, cluster_listeners,
                   initial_list_fetched, active_connections, viewHistory,
                   running, lifecycle_listeners, registrations, service, client, objectVars>>

\* handle_partitions_view_event(connection, partitions, version)
handle_partitions_view_event(connection, partitions, version) ==
    /\ Idle
    /\ partition_table' =
           NewPartitionTable(connection, partitions, version, partition_table)
    /\ lastCall' = [op |-> "handle_partitions_view_event",
                    connection |-> connection, partitions |-> partitions,
                    version |-> version, before |-> partition_table]
    /\ UNCHANGED <<partition_count, member_list_snapshot, cluster_listeners,
                   initial_list_fetched, active_connections, running,
                   lifecycle_listeners, registrations, service, client, callLog,
                   closeLog, viewHistory, objectVars>>

\* The partition count of a cluster with the default configuration.
DefaultPartitionCount == 271

\* The partition counts an authentication response can carry.
PartitionCounts == (1 .. MaxPartitionCount) \cup {DefaultPartitionCount}

\* 0xDEADBEEF as key.get_partition_hash() gives it: a signed 32-bit integer.
DeadBeef == -559038737

\* The smallest signed 32-bit integer.
MinInt == (-2147483647) - 1

\* The values of key.get_partition_hash(): signed 32-bit integers.
PartitionHashes ==
    {MinInt, DeadBeef, -272, -3, -1, 0, 1, 2, 5, 270, 271, 2147483647}

\* 2^32 modulo length, from 2^32 = 65536 * 65536.
TwoTo32Mod(length) == ((65536 % length) * (65536 % length)) % length

\* hash_to_index(hash, length): the hash read as an unsigned 32-bit value,
\* modulo length; a negative hash stands for hash + 2^32.
HashToIndex(hash, length) ==
    IF hash >= 0 THEN hash % length
    ELSE ((hash % length) + TwoTo32Mod(length)) % length

\* What get_partition_id does, given the key's partition hash and the
\* partition count: it raises or returns an index.  Faulty variants:
\* GetPartitionIdUnchecked has no test of the count and divides by it,
\* GetPartitionIdSigned takes the remainder of the signed hash itself.
Raised(error) == [error |-> error]

Returned(result) == [error |-> None, result |-> result]

GetPartitionIdUnchecked(hash, count) ==
    IF count = 0 THEN Raised("ZeroDivisionError")
    ELSE Returned(HashToIndex(hash, count))

GetPartitionIdSigned(hash, count) ==
    IF count = 0 THEN Raised("ClientOfflineError")
    ELSE Returned(hash % count)

GetPartitionId(hash, count) ==
    IF count = 0 THEN Raised("ClientOfflineError")
    ELSE Returned(HashToIndex(hash, count))

\* get_partition_id(key), hash being key.get_partition_hash()
get_partition_id(hash) ==
    /\ Idle
    /\ lastCall' = [op |-> "get_partition_id", hash |-> hash,
                    outcome |-> GetPartitionId(hash, partition_count)]
    /\ UNCHANGED <<partition_table, partition_count, member_list_snapshot,
                   cluster_listeners, initial_list_fetched, active_connections,
                   viewHistory, running, lifecycle_listeners, registrations,
                   service, client, callLog, closeLog, objectVars>>

\* What check_and_set_partition_count does, given the stored count and the
\* one offered: the count it leaves and the value it returns.
\* CheckAndSetOverwriting is the faulty variant that stores every count
\* offered.
CheckAndSetOverwriting(count, offered) ==
    [count |-> offered, result |-> TRUE]

CheckAndSet(count, offered) ==
    IF count = 0 THEN [count |-> offered, result |-> TRUE]
    ELSE [count |-> count, result |-> (count = offered)]

\* check_and_set_partition_count(partition_count)
check_and_set_partition_count(offered) ==
    /\ Idle
    /\ partition_count' = CheckAndSet(partition_count, offered).count
    /\ lastCall' = [op |-> "check_and_set_partition_count",
                    partition_count |-> offered,
                    result |-> CheckAndSet(partition_count, offered).result]
    /\ UNCHANGED <<partition_table, member_list_snapshot, cluster_listeners,
                   initial_list_fetched, active_connections, viewHistory,
                   running, lifecycle_listeners, registrations, service,
                   client, callLog, closeLog, objectVars>>

\* A Python value given to string_partition_strategy: None or a str, the
\* latter as the sequence of its characters.
PyNone == [type |-> "NoneType"]

Str(chars) == [type |-> "str", chars |-> chars]

\* The characters of the keys, and the keys.
KeyCharacters == {"a", "b", "@"}

RECURSIVE StringsUpTo(_)
StringsUpTo(n) ==
    IF n = 0 THEN {<<>>}
    ELSE LET shorter == StringsUpTo(n - 1)
         IN  shorter \cup {Append(t, c) : t \in shorter, c \in KeyCharacters}

Keys ==
    {PyNone, Str(<<"f", "o", "o", "@", "b", "a", "r">>),
     Str(<<"p", "l", "a", "i", "n">>)}
    \cup {Str(chars) : chars \in StringsUpTo(MaxKeyLen)}

\* key.index('@'): the index of the first '@', counted from 0; -1 stands for
\* the ValueError raised when there is none.  LastIndexOf is the faulty
\* variant that finds the last one.
LastIndexOf(chars) ==
    IF \A i \in 1 .. Len(chars) : chars[i] # "@" THEN -1
    ELSE (CHOOSE i \in 1 .. Len(chars) :
              /\ chars[i] = "@"
              /\ \A j \in (i + 1) .. Len(chars) : chars[j] # "@") - 1

IndexOf(chars) ==
    IF \A i \in 1 .. Len(chars) : chars[i] # "@" THEN -1
    ELSE (CHOOSE i \in 1 .. Len(chars) :
              /\ chars[i] = "@"
              /\ \A j \in 1 .. (i - 1) : chars[j] # "@") - 1

\* string_partition_strategy(key): the value it returns.
StringPartitionStrategy(key) ==
    IF key = PyNone THEN PyNone
    ELSE LET index_of == IndexOf(key.chars)
         IN  IF index_of = -1 THEN key
             ELSE Str(SubSeq(key.chars, index_of + 2, Len(key.chars)))

string_partition_strategy(key) ==
    /\ Idle
    /\ lastCall' = [op |-> "string_partition_strategy", key |-> key,
                    result |-> StringPartitionStrategy(key)]
    /\ UNCHANGED <<partition_table, partition_count, member_list_snapshot,
                   cluster_listeners, initial_list_fetched, active_connections,
                   viewHistory, running, lifecycle_listeners, registrations,
                   service, client, callLog, closeLog, objectVars>>

----------------------------------------------------------------------------
(* hazelcast/cluster.py                                                    *)

\* _MemberListSnapshot(version, members).  members is an OrderedDict keyed by
\* member uuid, modelled as the sequence of its keys: a member is identified
\* by its uuid.  sentinel tells the object _EMPTY_SNAPSHOT from a snapshot that
\* merely equals it, as the code compares with "is".
MemberListSnapshot(version, members) ==
    [version |-> version, members |-> members, sentinel |-> FALSE]

\* _EMPTY_SNAPSHOT = _MemberListSnapshot(-1, OrderedDict())
EMPTY_SNAPSHOT == [version |-> -1, members |-> <<>>, sentinel |-> TRUE]

\* The member lists a members view can carry: no member twice.
MemberInfos == Arrangements(Uuids)

\* What a registered callback does when it is invoked; None is no callback.
Handlers == {None, "returns", "raises"}

\* The (member_added, member_removed) pairs registered in the model.
ListenerKinds ==
    {<<"returns", "returns">>, <<"raises", None>>, <<None, "raises">>}

\* _create_snapshot: new_members[member_info.uuid] = member_info in order; a
\* uuid seen again keeps its first position.
RECURSIVE CreateMembers(_, _)
CreateMembers(member_infos, new_members) ==
    IF member_infos = <<>> THEN new_members
    ELSE CreateMembers(Tail(member_infos),
                       IF Head(member_infos) \in Range(new_members)
                       THEN new_members
                       ELSE Append(new_members, Head(member_infos)))

CreateSnapshot(version, member_infos) ==
    MemberListSnapshot(version, CreateMembers(member_infos, <<>>))

\* six.itervalues of a plain dict: the orders in which its values can come.
\* The registration ids are random uuid4 strings and the module runs on
\* Python 2 as well as Python 3 (it iterates through six), so the order is
\* the insertion order on some interpreters and follows the hashes of the
\* keys on others.
DictValues(d) ==
    {[i \in 1 .. Len(d) |-> d[p[i]]] : p \in Permutations_(1 .. Len(d))}

\* The orders in which a Python set can be iterated.
SetOrders(S) == Permutations_(S)

\* The condition of handle_members_view_event under which the view is
\* published.  ViewAcceptedAlways is the faulty variant without the test.
ViewAcceptedAlways(version, current) == TRUE

ViewAccepted(version, current) == version >= current.version

\* The condition under which handle_members_view_event sets the gate.
\* GateReleasedNonEmpty is the faulty variant that waits for members.
GateReleasedNonEmpty(current, snapshot) ==
    current.sentinel /\ snapshot.members # <<>>

GateReleased(current, snapshot) == current.sentinel

\* _detect_membership_events: the dead members (a set) and the new members
\* (a list, in the order of the new snapshot).
DeadMembers(old, new) == Range(old.members) \ Range(new.members)

NewMembers(old, new) ==
    SelectSeq(new.members, LAMBDA m : m \notin Range(old.members))

\* The connections _detect_membership_events closes: those the connection
\* manager holds for a dead member.  ClosedConnectionsNone is the faulty
\* variant that closes nothing.
ClosedConnectionsNone(old, new, connections) == {}

ClosedConnections(old, new, connections) ==
    DeadMembers(old, new) \cap connections

\* One callback invocation.
Call(event, member, listener, handler) ==
    [event |-> event, member |-> member, listener |-> listener.id,
     raised |-> (handler = "raises")]

\* The inner loop of _apply_new_state_and_fire_events for one member: every
\* listener that has a handler for the event is invoked, in the order of
\* listeners; an exception is caught and the loop goes on.
\* FireForMemberAborting is the faulty variant without the try/except.
HandlerOf(event, listener) ==
    IF event = "member_added" THEN listener.member_added
    ELSE listener.member_removed

RECURSIVE FireForMemberAborting(_, _, _)
FireForMemberAborting(event, member, listeners) ==
    IF listeners = <<>> THEN <<>>
    ELSE LET handler == HandlerOf(event, Head(listeners))
         IN  IF handler = None
             THEN FireForMemberAborting(event, member, Tail(listeners))
             ELSE IF handler = "raises"
             THEN <<Call(event, member, Head(listeners), handler)>>
             ELSE <<Call(event, member, Head(listeners), handler)>>
                  \o FireForMemberAborting(event, member, Tail(listeners))

RECURSIVE FireForMemberCaught(_, _, _)
FireForMemberCaught(event, member, listeners) ==
    IF listeners = <<>> THEN <<>>
    ELSE LET handler == HandlerOf(event, Head(listeners))
         IN  IF handler = None
             THEN FireForMemberCaught(event, member, Tail(listeners))
             ELSE <<Call(event, member, Head(listeners), handler)>>
                  \o FireForMemberCaught(event, member, Tail(listeners))

FireForMember(event, member, listeners) ==
    FireForMemberCaught(event, member, listeners)

\* The outer loop over the members of one group.
RECURSIVE FireForMembers(_, _, _)
FireForMembers(event, members, listeners) ==
    IF members = <<>> THEN <<>>
    ELSE FireForMember(event, Head(members), listeners)
         \o FireForMembers(event, Tail(members), listeners)

\* The callbacks of _apply_new_state_and_fire_events: removals (iterated as a
\* set, in removal_order), then additions.  FireEventsAdditionsFirst is the
\* faulty variant with the two loops exchanged.
FireEventsAdditionsFirst(removal_order, additions, listeners) ==
    FireForMembers("member_added", additions, listeners)
    \o FireForMembers("member_removed", removal_order, listeners)

FireEvents(removal_order, additions, listeners) ==
    FireForMembers("member_removed", removal_order, listeners)
    \o FireForMembers("member_added", additions, listeners)

\* The records of closeLog.
CloseRecords(members) ==
    {[member |-> m, cause |-> "TargetDisconnectedError"] : m \in members}

\* The history of the members views: whether one has been handled, whether
\* one that carried a member has been handled, the highest version published
\* so far and the highest published since the last clear_member_list_version.
NoViews ==
    [handled |-> FALSE, non_empty |-> FALSE, published |-> -1,
     published_since_clear |-> -1]

Max(a, b) == IF a >= b THEN a ELSE b

ViewHandled(history, version, member_infos, applied) ==
    [handled |-> TRUE,
     non_empty |-> (history.non_empty \/ member_infos # <<>>),
     published |-> IF applied THEN Max(history.published, version)
                   ELSE history.published,
     published_since_clear |->
         IF applied THEN Max(history.published_since_clear, version)
         ELSE history.published_since_clear]

\* The snapshot in self._member_list_snapshot while the events of a view are
\* fired: _apply_new_state_and_fire_events assigns the new snapshot before
\* its loops.  SnapshotAtEventsStale is the faulty variant that assigns it
\* after them.
SnapshotAtEventsStale(current, snapshot) == current

SnapshotAtEvents(current, snapshot) == snapshot

\* size(): len(snapshot.members)
Size(snapshot) == Len(snapshot.members)

\* handle_members_view_event(version, member_infos), up to what the
\* callbacks it invokes do to their own objects.
HandleMembersViewEvent(version, member_infos) ==
    LET snapshot == CreateSnapshot(version, member_infos)
        current == member_list_snapshot
        applied == ViewAccepted(version, current)
        closed == ClosedConnections(current, snapshot, active_connections)
    IN  /\ Idle
        /\ lastCall' = [op |-> "handle_members_view_event",
                        version |-> version, member_infos |-> member_infos,
                        applied |-> applied,
                        at_events |-> IF applied
                                      THEN SnapshotAtEvents(current, snapshot)
                                      ELSE current]
        /\ viewHistory' = ViewHandled(viewHistory, version, member_infos, applied)
        /\ initial_list_fetched' =
               (initial_list_fetched \/ GateReleased(current, snapshot))
        /\ IF applied
           THEN /\ member_list_snapshot' = snapshot
                /\ active_connections' = active_connections \ closed
                /\ closeLog' = CloseRecords(closed)
                /\ \E removal_order \in SetOrders(DeadMembers(current, snapshot)),
                      listeners \in DictValues(cluster_listeners) :
                      callLog' = FireEvents(removal_order,
                                            NewMembers(current, snapshot),
                                            listeners)
           ELSE /\ callLog' = <<>>
                /\ closeLog' = {}
                /\ UNCHANGED <<member_list_snapshot, active_connections>>
        /\ UNCHANGED <<partition_table, partition_count, cluster_listeners, running,
                       lifecycle_listeners, registrations, service, client>>

\* handle_members_view_event(version, member_infos) with listeners that
\* touch none of the objects of the model.
handle_members_view_event(version, member_infos) ==
    /\ HandleMembersViewEvent(version, member_infos)
    /\ UNCHANGED objectVars

\* clear_member_list_version: the snapshot it leaves.
\* ClearedSnapshotEmptied is the faulty variant that drops the members.
ClearedSnapshotEmptied(current) ==
    IF ~current.sentinel THEN MemberListSnapshot(0, <<>>) ELSE current

ClearedSnapshot(current) ==
    IF ~current.sentinel THEN MemberListSnapshot(0, current.members)
    ELSE current

clear_member_list_version ==
    /\ Idle
    /\ member_list_snapshot' = ClearedSnapshot(member_list_snapshot)
    /\ viewHistory' = [viewHistory EXCEPT !.published_since_clear = -1]
    /\ lastCall' = [op |-> "clear_member_list_version"]
    /\ callLog' = <<>>
    /\ closeLog' = {}
    /\ UNCHANGED <<partition_table, partition_count, cluster_listeners, initial_list_fetched,
                   active_connections, running, lifecycle_listeners,
                   registrations, service, client, objectVars>>

\* wait_initial_member_list_fetched: Event.wait returns True when the gate is
\* set; when it is not set by the end of the timeout the call raises.
wait_initial_member_list_fetched ==
    /\ Idle
    /\ lastCall' = [op |-> "wait_initial_member_list_fetched",
                    result |-> IF initial_list_fetched THEN "returned"
                               ELSE "IllegalStateError"]
    /\ callLog' = <<>>
    /\ closeLog' = {}
    /\ UNCHANGED <<partition_table, partition_count, member_list_snapshot, cluster_listeners,
                   initial_list_fetched, active_connections, running,
                   lifecycle_listeners, registrations, service, client, viewHistory, objectVars>>

\* The callbacks of add_listener with fire_for_existing: member_added for the
\* members of the snapshot in order; nothing catches an exception here, so
\* the first one that raises ends the loop.
RECURSIVE FireForExisting(_, _)
FireForExisting(members, listener) ==
    IF members = <<>> THEN <<>>
    ELSE <<Call("member_added", Head(members), listener, listener.member_added)>>
         \o (IF listener.member_added = "raises" THEN <<>>
             ELSE FireForExisting(Tail(members), listener))

\* _InternalClusterService.add_listener, up to what the callbacks it
\* invokes do to their own objects.
AddListener(member_added, member_removed, fire_for_existing) ==
    /\ Idle
    /\ registrations < MaxRegistrations
    /\ LET listener == [id |-> registrations + 1,
                        member_added |-> member_added,
                        member_removed |-> member_removed]
           calls == IF fire_for_existing /\ member_added # None
                    THEN FireForExisting(member_list_snapshot.members, listener)
                    ELSE <<>>
       IN  /\ cluster_listeners' = Append(cluster_listeners, listener)
           /\ registrations' = registrations + 1
           /\ callLog' = calls
           /\ lastCall' = [op |-> "cluster_add_listener",
                           fire_for_existing |-> fire_for_existing,
                           members |-> member_list_snapshot.members,
                           registration_id |-> listener.id,
                           returned |-> \A i \in 1 .. Len(calls) :
                                           ~calls[i].raised]
    /\ closeLog' = {}
    /\ UNCHANGED <<partition_table, partition_count, member_list_snapshot, initial_list_fetched,
                   active_connections, running, lifecycle_listeners, service, client, viewHistory>>

\* _InternalClusterService.add_listener with callbacks that touch none of
\* the objects of the model.
cluster_add_listener(member_added, member_removed, fire_for_existing) ==
    /\ AddListener(member_added, member_removed, fire_for_existing)
    /\ UNCHANGED objectVars

\* self._listeners.pop(registration_id): the listeners it leaves.
\* ListenersPoppedNothing is the faulty variant that removes nothing.
ListenersPoppedNothing(listeners, registration_id) == listeners

ListenersPopped(listeners, registration_id) ==
    SelectSeq(listeners, LAMBDA l : l.id # registration_id)

\* _InternalClusterService.remove_listener, which ClusterService.remove_listener
\* returns the result of.
cluster_remove_listener(registration_id) ==
    /\ Idle
    /\ cluster_listeners' = ListenersPopped(cluster_listeners, registration_id)
    /\ lastCall' = [op |-> "cluster_remove_listener",
                    registration_id |-> registration_id,
                    result |-> \E i \in 1 .. Len(cluster_listeners) :
                                   cluster_listeners[i].id = registration_id]
    /\ callLog' = <<>>
    /\ closeLog' = {}
    /\ UNCHANGED <<partition_table, partition_count, member_list_snapshot, initial_list_fetched,
                   active_connections, running, lifecycle_listeners,
                   registrations, service, client, viewHistory, objectVars>>

\* The connection manager opens a connection to the member with this uuid.
connection_opened(member_uuid) ==
    /\ Idle
    /\ member_uuid \notin active_connections
    /\ active_connections' = active_connections \cup {member_uuid}
    /\ lastCall' = [op |-> "connection_opened", member |-> member_uuid]
    /\ callLog' = <<>>
    /\ closeLog' = {}
    /\ UNCHANGED <<partition_table, partition_count, member_list_snapshot, cluster_listeners,
                   initial_list_fetched, running, lifecycle_listeners,
                   registrations, service, client, viewHistory, objectVars>>

----------------------------------------------------------------------------
(* hazelcast/lifecycle.py                                                  *)

\* LifecycleState
LifecycleStates ==
    {"STARTING", "STARTED", "SHUTTING_DOWN", "SHUTDOWN", "CONNECTED",
     "DISCONNECTED"}

\* The values of client.config.lifecycle_listeners the model starts from.
ConfiguredLifecycleListeners ==
    {<<>>, <<"returns">>, <<"raises">>, <<"returns", "raises">>}

\* _InternalLifecycleService.__init__: add_listener for every configured
\* listener, in order.
ListenersOfConfig(config) ==
    [i \in 1 .. Len(config) |-> [id |-> i, on_state_change |-> config[i]]]

\* One invocation of a lifecycle listener; is_running is what the listener
\* reads from lifecycle_service.is_running() while it runs.
LifecycleCall(new_state, listener, is_running) ==
    [event |-> new_state, listener |-> listener.id,
     raised |-> (listener.on_state_change = "raises"),
     running |-> is_running]

\* fire_lifecycle_event: every listener that is not None is invoked with the
\* state, in the order of listeners; an exception is caught and the loop goes
\* on.
RECURSIVE FireLifecycleEvent(_, _, _)
FireLifecycleEvent(new_state, listeners, is_running) ==
    IF listeners = <<>> THEN <<>>
    ELSE (IF Head(listeners).on_state_change = None THEN <<>>
          ELSE <<LifecycleCall(new_state, Head(listeners), is_running)>>)
         \o FireLifecycleEvent(new_state, Tail(listeners), is_running)

\* The callbacks of start() when the service is not running: STARTING, fired
\* before running is set, then STARTED, fired after.  StartEventsLate is the
\* faulty variant that sets running before it fires STARTING.
StartEventsLate(listeners) ==
    FireLifecycleEvent("STARTING", listeners, TRUE)
    \o FireLifecycleEvent("STARTED", listeners, TRUE)

StartEvents(listeners) ==
    FireLifecycleEvent("STARTING", listeners, FALSE)
    \o FireLifecycleEvent("STARTED", listeners, TRUE)

\* _InternalLifecycleService.start
start ==
    /\ Idle
    /\ lastCall' = [op |-> "start", was_running |-> running]
    /\ closeLog' = {}
    /\ IF running
       THEN /\ callLog' = <<>>
            /\ UNCHANGED running
       ELSE /\ running' = TRUE
            /\ \E listeners \in DictValues(lifecycle_listeners) :
                   callLog' = StartEvents(listeners)
    /\ UNCHANGED <<partition_table, partition_count, member_list_snapshot, cluster_listeners,
                   initial_list_fetched, active_connections,
                   lifecycle_listeners, registrations, service, client, viewHistory, objectVars>>

\* shutdown: the value of running it leaves.  RunningAfterShutdownFlipped is
\* the faulty variant that flips the flag.
RunningAfterShutdownFlipped(was_running) == ~was_running

RunningAfterShutdown(was_running) == FALSE

\* _InternalLifecycleService.shutdown
shutdown ==
    /\ Idle
    /\ running' = RunningAfterShutdown(running)
    /\ lastCall' = [op |-> "shutdown", was_running |-> running]
    /\ callLog' = <<>>
    /\ closeLog' = {}
    /\ UNCHANGED <<partition_table, partition_count, member_list_snapshot, cluster_listeners,
                   initial_list_fetched, active_connections,
                   lifecycle_listeners, registrations, service, client, viewHistory, objectVars>>

\* _InternalLifecycleService.fire_lifecycle_event, as the client and the
\* connection manager call it for the states start() does not fire.
fire_lifecycle_event(new_state) ==
    /\ Idle
    /\ \E listeners \in DictValues(lifecycle_listeners) :
           callLog' = FireLifecycleEvent(new_state, listeners, running)
    /\ lastCall' = [op |-> "fire_lifecycle_event", new_state |-> new_state]
    /\ closeLog' = {}
    /\ UNCHANGED <<partition_table, partition_count, member_list_snapshot, cluster_listeners,
                   initial_list_fetched, active_connections, running,
                   lifecycle_listeners, registrations, service, client, viewHistory, objectVars>>

\* _InternalLifecycleService.add_listener
lifecycle_add_listener(on_state_change) ==
    /\ Idle
    /\ registrations < MaxRegistrations
    /\ lifecycle_listeners' =
           Append(lifecycle_listeners,
                  [id |-> registrations + 1, on_state_change |-> on_state_change])
    /\ registrations' = registrations + 1
    /\ lastCall' = [op |-> "lifecycle_add_listener",
                    result |-> registrations + 1]
    /\ callLog' = <<>>
    /\ closeLog' = {}
    /\ UNCHANGED <<partition_table, partition_count, member_list_snapshot, cluster_listeners,
                   initial_list_fetched, active_connections, running, service, client, viewHistory, objectVars>>

\* _InternalLifecycleService.remove_listener
lifecycle_remove_listener(registration_id) ==
    /\ Idle
    /\ lifecycle_listeners' =
           SelectSeq(lifecycle_listeners, LAMBDA l : l.id # registration_id)
    /\ lastCall' = [op |-> "lifecycle_remove_listener",
                    registration_id |-> registration_id,
                    result |-> \E i \in 1 .. Len(lifecycle_listeners) :
                                   lifecycle_listeners[i].id = registration_id]
    /\ callLog' = <<>>
    /\ closeLog' = {}
    /\ UNCHANGED <<partition_table, partition_count, member_list_snapshot, cluster_listeners,
                   initial_list_fetched, active_connections, running,
                   registrations, service, client, viewHistory, objectVars>>

\* Python's True and False as a call returns them.
PyBool(b) == IF b THEN "True" ELSE "False"

\* What LifecycleService.remove_listener returns, given what the
\* remove_listener of the service it wraps returned: the call is made as a
\* statement, and a method that ends without a return statement returns None.
WrapperResult(internal_result) == None

\* LifecycleService.remove_listener: the public method.
LifecycleService_remove_listener(registration_id) ==
    LET removed == \E i \in 1 .. Len(lifecycle_listeners) :
                       lifecycle_listeners[i].id = registration_id
    IN  /\ Idle
        /\ lifecycle_listeners' =
               SelectSeq(lifecycle_listeners, LAMBDA l : l.id # registration_id)
        /\ lastCall' = [op |-> "LifecycleService_remove_listener",
                        registration_id |-> registration_id,
                        removed |-> removed,
                        result |-> WrapperResult(PyBool(removed))]
        /\ callLog' = <<>>
        /\ closeLog' = {}
        /\ UNCHANGED <<partition_table, partition_count, member_list_snapshot, cluster_listeners,
                       initial_list_fetched, active_connections, running,
                       registrations, service, client, viewHistory, objectVars>>

----------------------------------------------------------------------------
(* hazelcast/reactor.py, AsyncoreConnection.__init__: the TLS context of a *)
(* connection, and the member of tests/ssl/mutual_authentication_test.py   *)
(* it connects to.                                                         *)

\* The certificate the member presents and the client certificates the
\* member trusts.
MemberCertificate == "server1-cert.pem"
MemberTrustedClientCertificates == {"client1-cert.pem"}

\* The ssl configurations a client is constructed with: ssl enabled, a
\* cafile or none, a certfile (with its keyfile) or none.
CaFiles == {None, "server1-cert.pem", "server2-cert.pem"}
CertFiles == {None, "client1-cert.pem", "client2-cert.pem"}
SSLConfigs == [enabled : {TRUE}, cafile : CaFiles, certfile : CertFiles]

\* ssl_context.load_default_certs(): the system's certificate authorities,
\* none of which signed the member's certificate.
DefaultCerts == {}

\* ssl_context.verify_mode.  VerifyModeNone is the faulty variant that does
\* not verify the member's certificate.
VerifyModeNone == "CERT_NONE"

VerifyMode == "CERT_REQUIRED"

\* load_verify_locations(cafile) when a cafile is configured, else
\* load_default_certs(): the certificates the context accepts from a member.
VerifyLocations(ssl_config) ==
    IF ssl_config.cafile # None THEN {ssl_config.cafile} ELSE DefaultCerts

\* load_cert_chain(certfile, keyfile, password) when a certfile is
\* configured: the certificate the client presents, None when there is none.
CertChain(ssl_config) ==
    IF ssl_config.certfile # None THEN ssl_config.certfile ELSE None

\* ssl_context.wrap_socket(self.socket): the handshake.  The client rejects
\* a member certificate it cannot verify; the member rejects a client
\* certificate it does not trust, and a client without a certificate when
\* mutual authentication is required.
WrapSocket(ssl_config, ma_required) ==
    IF VerifyMode = "CERT_REQUIRED"
       /\ MemberCertificate \notin VerifyLocations(ssl_config)
    THEN "SSLError"
    ELSE IF CertChain(ssl_config) = None
    THEN (IF ma_required THEN "SSLError" ELSE "connected")
    ELSE IF CertChain(ssl_config) \in MemberTrustedClientCertificates
    THEN "connected"
    ELSE "SSLError"

----------------------------------------------------------------------------
(* HazelcastClient: the construction of a client, which starts the         *)
(* services in order and returns the client or raises.                     *)

\* The steps of the construction, in order; "shutdown" and "raised" are the
\* steps of a construction that failed.
StartupSteps ==
    <<"lifecycle", "reactor", "connection_manager",
      "wait_initial_member_list", "partition_service", "invocation_service",
      "done">>

\* The step after a step that has no call to wait for.
StepAfter(step) ==
    LET i == CHOOSE i \in 1 .. Len(StartupSteps) : StartupSteps[i] = step
    IN  StartupSteps[i + 1]

\* The client before its construction starts the first service.
NewClient(ssl_config, ma_required) ==
    [step |-> "lifecycle", ssl_config |-> ssl_config,
     ma_required |-> ma_required, connection |-> None]

\* The construction goes on after a call it made has returned or raised:
\* after start() to the reactor, after wait_initial_member_list_fetched() to
\* the partition service, or to the shutdown when the wait raised, and after
\* shutdown() it raises the error to the caller.
StepAfterCall(step, call) ==
    IF call.op = "start" THEN "reactor"
    ELSE IF call.op = "wait_initial_member_list_fetched"
    THEN (IF call.result = "returned" THEN "partition_service" ELSE "shutdown")
    ELSE "raised"

client_continues ==
    /\ client.step \in {"lifecycle", "wait_initial_member_list", "shutdown"}
    /\ lastCall.op \in {"start", "wait_initial_member_list_fetched", "shutdown"}
    /\ client' = [client EXCEPT !.step = StepAfterCall(client.step, lastCall)]
    /\ lastCall' = NoCall
    /\ callLog' = <<>>
    /\ closeLog' = {}
    /\ UNCHANGED <<partition_table, partition_count, member_list_snapshot, cluster_listeners,
                   initial_list_fetched, active_connections, viewHistory,
                   running, lifecycle_listeners, registrations, service, objectVars>>

\* The reactor, the partition service and the invocation service are started:
\* they hold none of the state modelled here.
client_starts_service ==
    /\ Idle
    /\ client.step \in {"reactor", "partition_service", "invocation_service"}
    /\ client' = [client EXCEPT !.step = StepAfter(client.step)]
    /\ UNCHANGED <<partition_table, partition_count, member_list_snapshot, cluster_listeners,
                   initial_list_fetched, active_connections, viewHistory,
                   running, lifecycle_listeners, registrations, service,
                   lastCall, callLog, closeLog, objectVars>>

\* The connection manager opens the first connection: the construction goes
\* on when the handshake succeeded and shuts the client down when it failed.
client_connects ==
    /\ Idle
    /\ client.step = "connection_manager"
    /\ LET connected ==
               WrapSocket(client.ssl_config, client.ma_required) = "connected"
       IN  client' = [client EXCEPT
                         !.connection = IF connected THEN "live" ELSE "failed",
                         !.step = IF connected THEN "wait_initial_member_list"
                                  ELSE "shutdown"]
    /\ UNCHANGED <<partition_table, partition_count, member_list_snapshot, cluster_listeners,
                   initial_list_fetched, active_connections, viewHistory,
                   running, lifecycle_listeners, registrations, service,
                   lastCall, callLog, closeLog, objectVars>>

----------------------------------------------------------------------------
(* hazelcast/cluster.py: VectorClock                                       *)

\* The vector clocks compared with each other, and their replicas.
ClockNames == {"A", "B"}
ReplicaIds == {"r1", "r2"}
Timestamps == 1 .. MaxTimestamp

\* VectorClock.__init__: _replica_timestamps = {}, a dict modelled as a
\* function whose domain is the set of its keys.
EmptyClock == [r \in {} |-> 0]

\* VectorClock.size
ClockSize(clock) == Cardinality(DOMAIN clock)

\* The value is_after returns after its loop.  ReturnedAfterLoopGreaterOnly
\* is the faulty variant that leaves out the comparison of the sizes.
ReturnedAfterLoopGreaterOnly(any_timestamp_greater, self, other) ==
    any_timestamp_greater

ReturnedAfterLoop(any_timestamp_greater, self, other) ==
    any_timestamp_greater \/ ClockSize(other) < ClockSize(self)

\* The loop of is_after over other.entry_set(): replicas are the entries
\* still to visit.  self._replica_timestamps.get(replica_id) is None when
\* self has no timestamp of the replica.
RECURSIVE IsAfterLoop(_, _, _, _)
IsAfterLoop(self, other, replicas, any_timestamp_greater) ==
    IF replicas = {}
    THEN ReturnedAfterLoop(any_timestamp_greater, self, other)
    ELSE LET replica_id == CHOOSE r \in replicas : TRUE
             other_timestamp == other[replica_id]
         IN  IF replica_id \notin DOMAIN self THEN FALSE
             ELSE IF self[replica_id] < other_timestamp THEN FALSE
             ELSE IsAfterLoop(self, other, replicas \ {replica_id},
                              any_timestamp_greater
                                  \/ self[replica_id] > other_timestamp)

\* VectorClock.is_after.  IsAfterCommonReplicas is the faulty variant whose
\* loop passes over the replicas that self has no timestamp of.
IsAfterCommonReplicas(self, other) ==
    IsAfterLoop(self, other, DOMAIN other \cap DOMAIN self, FALSE)

IsAfter(self, other) == IsAfterLoop(self, other, DOMAIN other, FALSE)

\* self._replica_timestamps[replica_id] = timestamp
WithTimestamp(clock, replica_id, timestamp) ==
    [r \in DOMAIN clock \cup {replica_id} |->
        IF r = replica_id THEN timestamp ELSE clock[r]]

\* VectorClock.set_replica_timestamp
set_replica_timestamp(name, replica_id, timestamp) ==
    /\ Idle
    /\ vector_clocks' =
           [vector_clocks EXCEPT
               ![name] = WithTimestamp(vector_clocks[name], replica_id, timestamp)]
    /\ UNCHANGED <<serviceVars, lastCall, callLog, closeLog, loadBalancerVars,
                   reactorVars, connectionVars,
                   otherVars>>

\* self.is_after(other), for two of the clocks
is_after(self, other) ==
    /\ Idle
    /\ lastCall' = [op |-> "is_after", self |-> self, other |-> other,
                    result |-> IsAfter(vector_clocks[self], vector_clocks[other])]
    /\ UNCHANGED <<serviceVars, callLog, closeLog, objectVars>>

----------------------------------------------------------------------------
(* hazelcast/cluster.py: the load balancers                                *)

\* AbstractLoadBalancer._listener, the callback the balancer registers for
\* member_added and member_removed: the list get_members() returns at that
\* moment replaces the cached one.
lb_listener(members) ==
    /\ Idle
    /\ lb_members' = members
    /\ nextLog' = <<>>
    /\ UNCHANGED <<serviceVars, lastCall, callLog, closeLog, lb_idx,
                   vectorClockVars, reactorVars, connectionVars,
                   otherVars>>

\* self._idx += 1.  IdxAfterNextStuck is the faulty variant that leaves the
\* index as it is.
IdxAfterNextStuck(idx) == idx

IdxAfterNext(idx) == idx + 1

\* What RoundRobinLB.next returns: members[self._idx % n], a list index that
\* counts from 0.
RoundRobinMember(members, idx) ==
    IF members = <<>> THEN None ELSE members[(idx % Len(members)) + 1]

\* RoundRobinLB.next, called by one caller at a time.
round_robin_next ==
    /\ Idle
    /\ lb_idx < MaxNextCalls
    /\ Len(nextLog) < MaxNextCalls
    /\ nextLog' = Append(nextLog, [members |-> lb_members,
                                   result |-> RoundRobinMember(lb_members, lb_idx)])
    /\ lb_idx' = IF lb_members = <<>> THEN lb_idx ELSE IdxAfterNext(lb_idx)
    /\ UNCHANGED <<serviceVars, lastCall, callLog, closeLog, lb_members,
                   vectorClockVars, reactorVars, connectionVars,
                   otherVars>>

----------------------------------------------------------------------------
(* hazelcast/reactor.py: AsyncoreReactor and Timer                         *)

Times == 0 .. MaxTime

\* What the callback given to add_timer does when it is invoked: it returns,
\* it raises, or it is the deadline callback of the invocation with this
\* correlation id.
Callback(does, correlation_id) ==
    [does |-> does, correlation_id |-> correlation_id]

TimerCallbacks == {Callback("returns", 0), Callback("raises", 0)}

\* Timer.__init__; timer_canceled_cb is always the reactor's _cleanup_timer.
Timer(end, timer_ended_cb) ==
    [end |-> end, timer_ended_cb |-> timer_ended_cb, canceled |-> FALSE]

\* The entries of _timers.queue are the tuples (timer.end, timer), modelled
\* as the index of the timer in timer_objects.  Tuples compare by their
\* first elements, and when these are equal by the timers, which Timer.__eq__
\* and Timer.__lt__ compare by end again.
EntryLess(objects, a, b) == objects[a].end < objects[b].end

EntryEqual(objects, a, b) == a = b \/ objects[a].end = objects[b].end

\* heapq._siftdown(heap, startpos, pos); positions count from 1 here.
RECURSIVE SiftDown(_, _, _, _, _)
SiftDown(objects, heap, startpos, pos, newitem) ==
    IF pos > startpos /\ EntryLess(objects, newitem, heap[pos \div 2])
    THEN SiftDown(objects, [heap EXCEPT ![pos] = heap[pos \div 2]], startpos,
                  pos \div 2, newitem)
    ELSE [heap EXCEPT ![pos] = newitem]

\* The first loop of heapq._siftup: the smaller child moves up until pos is
\* a leaf.  The result is the heap and the leaf.
RECURSIVE BubbleUp(_, _, _)
BubbleUp(objects, heap, pos) ==
    LET childpos == 2 * pos
        rightpos == childpos + 1
    IN  IF childpos > Len(heap) THEN <<heap, pos>>
        ELSE LET smaller ==
                     IF /\ rightpos <= Len(heap)
                        /\ ~EntryLess(objects, heap[childpos], heap[rightpos])
                     THEN rightpos ELSE childpos
             IN  BubbleUp(objects, [heap EXCEPT ![pos] = heap[smaller]], smaller)

\* heapq._siftup(heap, pos)
SiftUp(objects, heap, pos) ==
    LET bubbled == BubbleUp(objects, heap, pos)
    IN  SiftDown(objects, bubbled[1], pos, bubbled[2], heap[pos])

\* PriorityQueue.put_nowait: heapq.heappush
HeapPushed(objects, heap, item) ==
    SiftDown(objects, Append(heap, item), 1, Len(heap) + 1, item)

\* PriorityQueue.get_nowait: heapq.heappop of a queue that is not empty.
\* The item it returns is heap[1].
HeapPopped(objects, heap) ==
    LET lastelt == heap[Len(heap)]
        rest == SubSeq(heap, 1, Len(heap) - 1)
    IN  IF rest = <<>> THEN rest
        ELSE SiftUp(objects, [rest EXCEPT ![1] = lastelt], 1)

\* self._timers.queue.remove((timer.end, timer)): list.remove drops the first
\* entry that equals the tuple and raises ValueError, which _cleanup_timer
\* ignores, when there is none.
ListRemoved(objects, heap, item) ==
    LET equal == {i \in 1 .. Len(heap) : EntryEqual(objects, heap[i], item)}
    IN  IF equal = {} THEN heap
        ELSE LET first == CHOOSE i \in equal : \A j \in equal : i <= j
             IN  SubSeq(heap, 1, first - 1) \o SubSeq(heap, first + 1, Len(heap))

\* AsyncoreReactor.start
reactor_start ==
    /\ Idle
    /\ reactor_thread = "not_started"
    /\ reactor_is_live' = TRUE
    /\ reactor_thread' = "running"
    /\ UNCHANGED <<serviceVars, lastCall, callLog, closeLog, timers,
                   timer_objects, now, socket_map, connection_states, invocations,
                   timerLog, vectorClockVars, loadBalancerVars, connectionVars,
                   otherVars>>

\* time.time() goes on.
tick ==
    /\ Idle
    /\ now < MaxTime
    /\ now' = now + 1
    /\ UNCHANGED <<serviceVars, lastCall, callLog, closeLog, reactor_is_live,
                   reactor_thread, timers, timer_objects, socket_map,
                   connection_states, invocations, timerLog, vectorClockVars,
                   loadBalancerVars, connectionVars,
                   otherVars>>

\* AsyncoreReactor.add_timer_absolute
add_timer_absolute(timeout, callback) ==
    /\ Idle
    /\ Len(timer_objects) < MaxTimers
    /\ timer_objects' = Append(timer_objects, Timer(timeout, callback))
    /\ timers' = HeapPushed(timer_objects', timers, Len(timer_objects) + 1)
    /\ UNCHANGED <<serviceVars, lastCall, callLog, closeLog, reactor_is_live,
                   reactor_thread, now, socket_map, connection_states, invocations,
                   timerLog, vectorClockVars, loadBalancerVars, connectionVars,
                   otherVars>>

\* AsyncoreReactor.add_timer
add_timer(delay, callback) ==
    /\ delay + now <= MaxTime
    /\ add_timer_absolute(delay + now, callback)

\* Timer.cancel, which calls AsyncoreReactor._cleanup_timer
timer_cancel(timer) ==
    /\ Idle
    /\ timer \in 1 .. Len(timer_objects)
    /\ timer_objects' = [timer_objects EXCEPT ![timer].canceled = TRUE]
    /\ timers' = ListRemoved(timer_objects, timers, timer)
    /\ UNCHANGED <<serviceVars, lastCall, callLog, closeLog, reactor_is_live,
                   reactor_thread, now, socket_map, connection_states, invocations,
                   timerLog, vectorClockVars, loadBalancerVars, connectionVars,
                   otherVars>>

\* Timer.check_timer(now): "canceled" and "ended" are the calls that return
\* True, "raised" is the one whose timer_ended_cb raises, "not_ended" the one
\* that returns False.
CheckTimer(timer, time) ==
    IF timer.canceled THEN "canceled"
    ELSE IF time >= timer.end
    THEN (IF timer.timer_ended_cb.does = "raises" THEN "raised" ELSE "ended")
    ELSE "not_ended"

\* The loop of _check_timers: the timer at the head of the queue is checked
\* and, when check_timer returns True, get_nowait takes the head off.  The
\* result is the queue left, the timers whose timer_ended_cb was invoked, in
\* order, and whether the last of them raised.
RECURSIVE CheckTimersLoop(_, _, _, _)
CheckTimersLoop(objects, queue, time, fired) ==
    IF queue = <<>> THEN [queue |-> queue, fired |-> fired, raised |-> FALSE]
    ELSE LET timer == queue[1]
             outcome == CheckTimer(objects[timer], time)
         IN  IF outcome = "not_ended"
             THEN [queue |-> queue, fired |-> fired, raised |-> FALSE]
             ELSE IF outcome = "raised"
             THEN [queue |-> queue, fired |-> Append(fired, timer),
                   raised |-> TRUE]
             ELSE CheckTimersLoop(objects, HeapPopped(objects, queue), time,
                                  IF outcome = "ended" THEN Append(fired, timer)
                                  ELSE fired)

\* The loop of _cleanup_all_timers: get_nowait takes the head off and its
\* timer_ended_cb is invoked, until the queue is empty or a callback raises.
RECURSIVE CleanupAllTimersLoop(_, _, _)
CleanupAllTimersLoop(objects, queue, fired) ==
    IF queue = <<>> THEN [queue |-> queue, fired |-> fired, raised |-> FALSE]
    ELSE LET timer == queue[1]
             left == HeapPopped(objects, queue)
         IN  IF objects[timer].timer_ended_cb.does = "raises"
             THEN [queue |-> left, fired |-> Append(fired, timer),
                   raised |-> TRUE]
             ELSE CleanupAllTimersLoop(objects, left, Append(fired, timer))

\* The records of timerLog: the callback of the timer that was invoked,
\* whether the timer had been cancelled by then, and the method that invoked
\* it.
TimerLogRecords(objects, fired, by) ==
    [i \in 1 .. Len(fired) |->
        [timer |-> fired[i], callback |-> "timer_ended_cb",
         canceled |-> objects[fired[i]].canceled, by |-> by]]

\* The deadline callback of an invocation: the future is rejected and the
\* entry leaves the correlation table, unless the invocation is complete.
InvocationTimedOut(invocation) ==
    IF invocation.stored
    THEN [invocation EXCEPT !.future = "OperationTimeoutError",
                            !.stored = FALSE,
                            !.completions = @ + 1]
    ELSE invocation

\* The correlation table after the callbacks of the timers in fired.
InvocationsAfter(table, objects, fired) ==
    [c \in 1 .. Len(table) |->
        IF \E i \in 1 .. Len(fired) :
               /\ objects[fired[i]].timer_ended_cb.does = "rejects"
               /\ objects[fired[i]].timer_ended_cb.correlation_id = c
        THEN InvocationTimedOut(table[c])
        ELSE table[c]]

\* One pass of the loop of _loop while the reactor is live: _check_timers at
\* the time now.  An exception of a callback ends the thread in the except
\* branch, which returns.
check_timers ==
    /\ Idle
    /\ reactor_thread = "running"
    /\ reactor_is_live
    /\ LET checked == CheckTimersLoop(timer_objects, timers, now, <<>>)
       IN  /\ timers' = checked.queue
           /\ timerLog' = timerLog \o TimerLogRecords(timer_objects, checked.fired,
                                                     "_check_timers")
           /\ invocations' = InvocationsAfter(invocations, timer_objects,
                                              checked.fired)
           /\ reactor_thread' = IF checked.raised THEN "exited" ELSE "running"
           /\ lastCall' = [op |-> "check_timers", now |-> now,
                           fired |-> checked.fired, raised |-> checked.raised]
    /\ UNCHANGED <<serviceVars, callLog, closeLog, reactor_is_live,
                   timer_objects, now, socket_map, connection_states,
                   vectorClockVars, loadBalancerVars, connectionVars,
                   otherVars>>

\* The reactor thread is inside a call of shutdown that it made itself.
ReactorInShutdown ==
    /\ lastCall.op = "reactor_shutdown"
    /\ lastCall.caller = "reactor"
    /\ lastCall.stage = "join"

\* The loop of _loop finds _is_live false: _cleanup_all_timers, and the
\* thread ends.
reactor_thread_exits ==
    /\ reactor_thread = "running"
    /\ ~reactor_is_live
    /\ ~ReactorInShutdown
    /\ LET cleaned == CleanupAllTimersLoop(timer_objects, timers, <<>>)
       IN  /\ timers' = cleaned.queue
           /\ timerLog' = timerLog \o TimerLogRecords(timer_objects, cleaned.fired,
                                                     "_cleanup_all_timers")
           /\ invocations' = InvocationsAfter(invocations, timer_objects,
                                              cleaned.fired)
    /\ reactor_thread' = "exited"
    /\ UNCHANGED <<serviceVars, lastCall, callLog, closeLog, reactor_is_live,
                   timer_objects, now, socket_map, connection_states,
                   vectorClockVars, loadBalancerVars, connectionVars,
                   otherVars>>

\* An exception: its type and, for a socket error, the errno it carries.
Exception(type, errno) == [type |-> type, errno |-> errno]

NoException == Exception(None, None)

\* The cause a connection was closed with: an exception with its message
\* or the exception it wraps.
Cause(type, text, error) == [type |-> type, text |-> text, error |-> error]

NoCause == Cause(None, None, NoException)

\* HazelcastError("Client is shutting down")
ShutdownError == Cause("HazelcastError", "Client is shutting down", NoException)

\* Connection.close(reason, cause): a live connection is not live any more
\* and keeps the cause; closing a closed one changes nothing.
ConnectionClosed(connection, cause) ==
    IF connection.live THEN [live |-> FALSE, cause |-> cause] ELSE connection

\* The records of closeLog for the connections of this set.
ConnectionCloseRecords(closed, cause) ==
    {[connection |-> c, cause |-> cause] : c \in closed}

\* AsyncoreReactor.connection_factory: the new connection registers itself
\* in the socket map.
connection_factory(connection_id) ==
    /\ Idle
    /\ connection_id \notin DOMAIN connection_states
    /\ connection_states' =
           [c \in DOMAIN connection_states \cup {connection_id} |->
               IF c = connection_id THEN [live |-> TRUE, cause |-> NoCause]
               ELSE connection_states[c]]
    /\ socket_map' = socket_map \cup {connection_id}
    /\ UNCHANGED <<serviceVars, lastCall, callLog, closeLog, reactor_is_live,
                   reactor_thread, timers, timer_objects, now, invocations,
                   timerLog, vectorClockVars, loadBalancerVars, connectionVars,
                   otherVars>>

\* shutdown waits for the reactor thread unless the caller is that thread.
\* ShutdownJoinsAlways is the faulty variant that waits for it in any case.
ShutdownJoinsAlways(caller) == TRUE

ShutdownJoins(caller) == caller # "reactor"

\* The loop of shutdown over list(self._map.values()) and self._map.clear().
\* ClosedAtShutdownNone is the faulty variant that closes no connection.
ClosedAtShutdownNone(map) == {}

ClosedAtShutdown(map) == map

\* The connections after the loop of shutdown.
ConnectionsAfterShutdown(conns, map) ==
    [c \in DOMAIN conns |->
        IF c \in ClosedAtShutdown(map) THEN ConnectionClosed(conns[c], ShutdownError)
        ELSE conns[c]]

\* AsyncoreReactor.shutdown, up to the point where it waits for the reactor
\* thread, and to its end when it does not wait.
reactor_shutdown(caller) ==
    /\ Idle
    /\ caller = "reactor" => reactor_thread = "running"
    /\ IF ~reactor_is_live
       THEN /\ lastCall' = [op |-> "reactor_shutdown", caller |-> caller,
                            was_live |-> FALSE, stage |-> "returned",
                            map |-> socket_map]
            /\ closeLog' = {}
            /\ UNCHANGED <<reactor_is_live, connection_states, socket_map>>
       ELSE /\ reactor_is_live' = FALSE
            /\ IF ShutdownJoins(caller)
               THEN /\ lastCall' = [op |-> "reactor_shutdown", caller |-> caller,
                                    was_live |-> TRUE, stage |-> "join",
                                    map |-> socket_map]
                    /\ closeLog' = {}
                    /\ UNCHANGED <<connection_states, socket_map>>
               ELSE /\ lastCall' = [op |-> "reactor_shutdown", caller |-> caller,
                                    was_live |-> TRUE, stage |-> "returned",
                                    map |-> socket_map]
                    /\ closeLog' = ConnectionCloseRecords(ClosedAtShutdown(socket_map),
                                                          ShutdownError)
                    /\ connection_states' = ConnectionsAfterShutdown(connection_states, socket_map)
                    /\ socket_map' = {}
    /\ UNCHANGED <<serviceVars, callLog, reactor_thread, timers, timer_objects,
                   now, invocations, timerLog, vectorClockVars,
                   loadBalancerVars, connectionVars,
                   otherVars>>

\* self._thread.join() has returned, the reactor thread having ended: the
\* rest of shutdown.
reactor_shutdown_joined ==
    /\ lastCall.op = "reactor_shutdown"
    /\ lastCall.stage = "join"
    /\ reactor_thread # "running"
    /\ lastCall' = [lastCall EXCEPT !.stage = "returned", !.map = socket_map]
    /\ closeLog' = ConnectionCloseRecords(ClosedAtShutdown(socket_map), ShutdownError)
    /\ connection_states' = ConnectionsAfterShutdown(connection_states, socket_map)
    /\ socket_map' = {}
    /\ UNCHANGED <<serviceVars, callLog, reactor_is_live, reactor_thread, timers,
                   timer_objects, now, invocations, timerLog, vectorClockVars,
                   loadBalancerVars, connectionVars,
                   otherVars>>

----------------------------------------------------------------------------
(* The invocation service, as far as its deadline timers go                *)

\* invoke: the invocation is stored under a new correlation id and its
\* deadline timer is armed in the reactor.
invoke(deadline) ==
    /\ Idle
    /\ Len(invocations) < MaxInvocations
    /\ Len(timer_objects) < MaxTimers
    /\ deadline >= now
    /\ invocations' = Append(invocations,
                             [deadline |-> deadline, future |-> "pending",
                              stored |-> TRUE, completions |-> 0,
                              responses |-> 0])
    /\ timer_objects' = Append(timer_objects,
                               Timer(deadline,
                                     Callback("rejects", Len(invocations) + 1)))
    /\ timers' = HeapPushed(timer_objects', timers, Len(timer_objects) + 1)
    /\ UNCHANGED <<serviceVars, lastCall, callLog, closeLog, reactor_is_live,
                   reactor_thread, now, socket_map, connection_states, timerLog,
                   vectorClockVars, loadBalancerVars, connectionVars,
                   otherVars>>

\* The response of an invocation arrives: it completes the future of a
\* stored invocation, and is dropped when the entry is gone.
InvocationResponded(invocation) ==
    IF invocation.stored
    THEN [invocation EXCEPT !.future = "response", !.stored = FALSE,
                            !.completions = @ + 1, !.responses = @ + 1]
    ELSE [invocation EXCEPT !.responses = @ + 1]

handle_response(correlation_id) ==
    /\ Idle
    /\ correlation_id \in 1 .. Len(invocations)
    /\ invocations[correlation_id].responses = 0
    /\ invocations' =
           [invocations EXCEPT
               ![correlation_id] = InvocationResponded(invocations[correlation_id])]
    /\ UNCHANGED <<serviceVars, lastCall, callLog, closeLog, reactor_is_live,
                   reactor_thread, timers, timer_objects, now, socket_map,
                   connection_states, timerLog, vectorClockVars, loadBalancerVars,
                   connectionVars,
                   otherVars>>

----------------------------------------------------------------------------
(* hazelcast/reactor.py: AsyncoreConnection                                *)

\* The connection whose writes and events are followed.
TheConnection == "connX"

\* The threads that call _write, one frame each, and the reactor thread,
\* which calls handle_read and handle_write.
Producers == {"t1", "t2"}
Threads == Producers \cup {"reactor"}

\* A byte: the buffer it belongs to and its place in it.
Byte(of, at) == [of |-> of, at |-> at]

\* b"CP2": the bytes 0x43, 0x50 and 0x32.
CP2 == <<Byte("CP2", 1), Byte("CP2", 2), Byte("CP2", 3)>>

\* The frame a producer writes.
Frame(thread) == [i \in 1 .. FrameLen |-> Byte(thread, i)]

\* A thread that is in neither _write nor handle_write.
NotWriting ==
    [pc |-> "idle", buf |-> <<>>, sent |-> 0, after |-> {}]

\* _write(buf) is called and evaluates len(self._write_queue) == 0.  after
\* is history: the producers whose _write had returned by then.
write_called(thread) ==
    /\ thread \in Producers
    /\ threads[thread].pc = "idle"
    /\ connection_states[TheConnection].live
    /\ threads' = [threads EXCEPT
                      ![thread] = [pc |-> IF Len(write_queue) = 0 THEN "acquire"
                                          ELSE "append",
                                   buf |-> Frame(thread), sent |-> 0,
                                   after |-> {t \in Producers :
                                                 threads[t].pc = "returned"}]]
    /\ UNCHANGED <<serviceVars, lastCall, callLog, closeLog, write_queue,
                   write_lock, sent_protocol_bytes, socket_bytes,
                   vectorClockVars, loadBalancerVars, reactorVars,
                   otherVars>>

\* self._write_lock.acquire(False): the lock is taken when it is free, and
\* the buffer goes to the queue when it is not.
write_acquires(thread) ==
    /\ thread \in Producers
    /\ threads[thread].pc = "acquire"
    /\ IF write_lock = None
       THEN /\ write_lock' = thread
            /\ threads' = [threads EXCEPT ![thread].pc = "send"]
       ELSE /\ threads' = [threads EXCEPT ![thread].pc = "append"]
            /\ UNCHANGED write_lock
    /\ UNCHANGED <<serviceVars, lastCall, callLog, closeLog, write_queue,
                   sent_protocol_bytes, socket_bytes, vectorClockVars,
                   loadBalancerVars, reactorVars,
                   otherVars>>

\* self.send(data): the socket takes the first sent bytes of the buffer.
\* handle_write sets sent_protocol_bytes after it.
thread_sends(thread, sent) ==
    /\ threads[thread].pc = "send"
    /\ sent \in 0 .. Len(threads[thread].buf)
    /\ socket_bytes' = socket_bytes \o SubSeq(threads[thread].buf, 1, sent)
    /\ threads' = [threads EXCEPT ![thread].pc = "sent", ![thread].sent = sent]
    /\ sent_protocol_bytes' = (thread = "reactor" \/ sent_protocol_bytes)
    /\ UNCHANGED <<serviceVars, lastCall, callLog, closeLog, write_queue,
                   write_lock, vectorClockVars, loadBalancerVars, reactorVars,
                   otherVars>>

\* if sent < len(data): self._write_queue.appendleft(data[sent:])
thread_requeues(thread) ==
    /\ threads[thread].pc = "sent"
    /\ LET data == threads[thread].buf
           sent == threads[thread].sent
       IN  write_queue' = IF sent < Len(data)
                          THEN <<SubSeq(data, sent + 1, Len(data))>> \o write_queue
                          ELSE write_queue
    /\ threads' = [threads EXCEPT ![thread].pc = "release"]
    /\ UNCHANGED <<serviceVars, lastCall, callLog, closeLog, write_lock,
                   sent_protocol_bytes, socket_bytes, vectorClockVars,
                   loadBalancerVars, reactorVars,
                   otherVars>>

\* The lock is released: the end of _write on its first branch and of
\* handle_write.
thread_releases(thread) ==
    /\ threads[thread].pc = "release"
    /\ write_lock' = None
    /\ threads' = [threads EXCEPT
                      ![thread].pc = IF thread = "reactor" THEN "idle"
                                     ELSE "returned"]
    /\ UNCHANGED <<serviceVars, lastCall, callLog, closeLog, write_queue,
                   sent_protocol_bytes, socket_bytes, vectorClockVars,
                   loadBalancerVars, reactorVars,
                   otherVars>>

\* self._write_queue.append(buf), the other branch of _write
write_appends(thread) ==
    /\ thread \in Producers
    /\ threads[thread].pc = "append"
    /\ write_queue' = Append(write_queue, threads[thread].buf)
    /\ threads' = [threads EXCEPT ![thread].pc = "returned"]
    /\ UNCHANGED <<serviceVars, lastCall, callLog, closeLog, write_lock,
                   sent_protocol_bytes, socket_bytes, vectorClockVars,
                   loadBalancerVars, reactorVars,
                   otherVars>>

\* The poll of the reactor finds the connection writable, and handle_write
\* waits for the lock.
handle_write_called ==
    /\ threads["reactor"].pc = "idle"
    /\ connection_states[TheConnection].live
    /\ Len(write_queue) > 0
    /\ threads' = [threads EXCEPT !["reactor"].pc = "acquire"]
    /\ UNCHANGED <<serviceVars, lastCall, callLog, closeLog, write_queue,
                   write_lock, sent_protocol_bytes, socket_bytes,
                   vectorClockVars, loadBalancerVars, reactorVars,
                   otherVars>>

\* with self._write_lock
handle_write_acquires ==
    /\ threads["reactor"].pc = "acquire"
    /\ write_lock = None
    /\ write_lock' = "reactor"
    /\ threads' = [threads EXCEPT !["reactor"].pc = "popleft"]
    /\ UNCHANGED <<serviceVars, lastCall, callLog, closeLog, write_queue,
                   sent_protocol_bytes, socket_bytes, vectorClockVars,
                   loadBalancerVars, reactorVars,
                   otherVars>>

\* data = self._write_queue.popleft(), and the return on IndexError
handle_write_pops ==
    /\ threads["reactor"].pc = "popleft"
    /\ IF write_queue = <<>>
       THEN /\ threads' = [threads EXCEPT !["reactor"].pc = "release"]
            /\ UNCHANGED write_queue
       ELSE /\ threads' = [threads EXCEPT !["reactor"].pc = "send",
                                          !["reactor"].buf = Head(write_queue)]
            /\ write_queue' = Tail(write_queue)
    /\ UNCHANGED <<serviceVars, lastCall, callLog, closeLog, write_lock,
                   sent_protocol_bytes, socket_bytes, vectorClockVars,
                   loadBalancerVars, reactorVars,
                   otherVars>>

\* The exceptions a read or write event can end with: socket.error with an
\* errno, ssl.SSLError, which is a subclass of socket.error, and the error of
\* the reader on a frame it cannot parse.
Errnos == {"EAGAIN", "EDEADLK", "ETIMEDOUT"}

Exceptions ==
    {Exception("socket.error", errno) : errno \in Errnos}
        \cup {Exception("ssl.SSLError", "SSL_ERROR_SSL"), Exception("struct.error", None)}

\* What an event of the socket brings: data, the close of the peer, which
\* asyncore answers with handle_close, or an exception, which asyncore
\* answers with handle_error.
Outcome(kind, error) == [kind |-> kind, error |-> error]

FailedOutcomes ==
    {Outcome("closed", NoException)} \cup {Outcome("raised", e) : e \in Exceptions}

ReadOutcomes == {Outcome("data", NoException)} \cup FailedOutcomes

\* handle_error closes the connection when the type of the exception is
\* socket.error itself and its errno is neither EAGAIN nor EDEADLK; every
\* other exception is logged.
HandleErrorCloses(error) ==
    /\ error.type = "socket.error"
    /\ error.errno # "EAGAIN"
    /\ error.errno # "EDEADLK"

\* The connection after handle_close or handle_error.
ConnectionAfter(connection, outcome) ==
    IF outcome.kind = "closed"
    THEN ConnectionClosed(connection,
                          Cause("IOError", "Connection closed by server", NoException))
    ELSE IF outcome.kind = "raised" /\ HandleErrorCloses(outcome.error)
    THEN ConnectionClosed(connection, Cause("IOError", None, outcome.error))
    ELSE connection

\* A closed connection has left the socket map.
MapAfter(map, conns) == {c \in map : conns[c].live}

\* handle_read, called when the connection is readable()
handle_read(outcome) ==
    /\ Idle
    /\ threads["reactor"].pc = "idle"
    /\ connection_states[TheConnection].live
    /\ sent_protocol_bytes
    /\ connection_states' = [connection_states EXCEPT
                          ![TheConnection] = ConnectionAfter(@, outcome)]
    /\ socket_map' = MapAfter(socket_map, connection_states')
    /\ lastCall' = [op |-> "handle_read", outcome |-> outcome]
    /\ UNCHANGED <<serviceVars, callLog, closeLog, reactor_is_live,
                   reactor_thread, timers, timer_objects, now, invocations,
                   timerLog, vectorClockVars, loadBalancerVars, connectionVars,
                   otherVars>>

\* self.send(data) of handle_write fails.  On the close of the peer send
\* returns 0 after handle_close; an exception leaves the with block, which
\* releases the lock, and handle_write.
handle_write_fails(outcome) ==
    /\ Idle
    /\ threads["reactor"].pc = "send"
    /\ connection_states' = [connection_states EXCEPT
                          ![TheConnection] = ConnectionAfter(@, outcome)]
    /\ socket_map' = MapAfter(socket_map, connection_states')
    /\ lastCall' = [op |-> "handle_write", outcome |-> outcome]
    /\ IF outcome.kind = "closed"
       THEN /\ threads' = [threads EXCEPT !["reactor"].pc = "sent",
                                          !["reactor"].sent = 0]
            /\ sent_protocol_bytes' = TRUE
            /\ UNCHANGED write_lock
       ELSE /\ threads' = [threads EXCEPT !["reactor"] = NotWriting]
            /\ write_lock' = None
            /\ UNCHANGED sent_protocol_bytes
    /\ UNCHANGED <<serviceVars, callLog, closeLog, reactor_is_live,
                   reactor_thread, timers, timer_objects, now, invocations,
                   timerLog, write_queue, socket_bytes, vectorClockVars,
                   loadBalancerVars,
                   otherVars>>

----------------------------------------------------------------------------
(* The objects after their constructors.                                   *)

InitVectorClocks == vector_clocks = [name \in ClockNames |-> EmptyClock]

InitLoadBalancer ==
    /\ lb_members = <<>>
    /\ lb_idx = 0
    /\ nextLog = <<>>

NoConnections == [c \in {} |-> [live |-> FALSE, cause |-> NoCause]]

InitReactor ==
    /\ reactor_is_live = FALSE
    /\ reactor_thread = "not_started"
    /\ timers = <<>>
    /\ timer_objects = <<>>
    /\ now = 0
    /\ socket_map = {}
    /\ connection_states = NoConnections
    /\ invocations = <<>>
    /\ timerLog = <<>>

\* No connection has been made.
InitNoConnection ==
    /\ write_queue = <<>>
    /\ write_lock = None
    /\ sent_protocol_bytes = FALSE
    /\ threads = [t \in Threads |-> NotWriting]
    /\ socket_bytes = <<>>

\* An empty queue.
InitQueue == queue_items = <<>>

\* The reactor thread is not in _check_timers.
NotChecking == [pc |-> "idle", timer |-> 0, time |-> 0]

InitChecking == checking = NotChecking

\* No TLS context has been built.
NoContext == [options |-> {}, verify_mode |-> "CERT_NONE"]

InitContext == ssl_context = NoContext

\* No aggregator has been made; values = set() of the class body.
InitAggregators ==
    /\ aggregators = [i \in {} |-> [attribute_path |-> None]]
    /\ class_values = {}

InitObjects ==
    /\ InitVectorClocks
    /\ InitLoadBalancer
    /\ InitReactor
    /\ InitNoConnection
    /\ InitQueue
    /\ InitAggregators
    /\ InitChecking
    /\ InitContext

----------------------------------------------------------------------------
(* hazelcast/proxy/queue.py: Queue                                         *)

\* The items offered to the queue; None is an argument too.
QueueItems == {"a", "b", "c"}

\* What a future completes with: a value, or an error.
Completed(result, error) == [result |-> result, error |-> error]

\* The member's answer to an offer with timeout 0: the item is appended when
\* there is space, and the answer says whether it was.
OfferAccepted(items) == Len(items) < QueueCapacity

ItemsAfterOffer(items, item) ==
    IF OfferAccepted(items) THEN Append(items, item) ELSE items

\* check_not_none(item, "Value can't be None") of offer, and the future of
\* the invocation, which decode_response completes with the member's answer.
Offer(items, item) ==
    IF item = None THEN Completed(None, "AssertionError")
    ELSE Completed(PyBool(OfferAccepted(items)), None)

\* result_fnc of add, the continuation of the future of offer: True when the
\* result of the offer is true, and Full("Queue is full!") raised otherwise.
\* A failed future raises its own error at f.result().
ResultFnc(f) ==
    IF f.error # None THEN f
    ELSE IF f.result = "True" THEN Completed("True", None)
    ELSE Completed(None, "Full")

\* Queue.offer(item): the call with what its future completes with.
queue_offer(item) ==
    /\ Idle
    /\ queue_items' = IF item = None THEN queue_items
                      ELSE ItemsAfterOffer(queue_items, item)
    /\ lastCall' = [op |-> "queue_offer", item |-> item,
                    completed |-> Offer(queue_items, item),
                    accepted |-> item # None /\ OfferAccepted(queue_items)]
    /\ UNCHANGED <<serviceVars, callLog, closeLog, vectorClockVars,
                   loadBalancerVars, reactorVars, connectionVars, checkVars,
                   tlsVars, aggregators, class_values>>

\* Queue.add(item): self.offer(item).continue_with(result_fnc)
queue_add(item) ==
    /\ Idle
    /\ queue_items' = IF item = None THEN queue_items
                      ELSE ItemsAfterOffer(queue_items, item)
    /\ lastCall' = [op |-> "queue_add", item |-> item,
                    completed |-> ResultFnc(Offer(queue_items, item)),
                    accepted |-> item # None /\ OfferAccepted(queue_items)]
    /\ UNCHANGED <<serviceVars, callLog, closeLog, vectorClockVars,
                   loadBalancerVars, reactorVars, connectionVars, checkVars,
                   tlsVars, aggregators, class_values>>

\* Queue.poll(): the head leaves the queue; None when the queue is empty.
queue_poll ==
    /\ Idle
    /\ queue_items' = IF queue_items = <<>> THEN queue_items ELSE Tail(queue_items)
    /\ lastCall' = [op |-> "queue_poll", item |-> None,
                    completed |-> Completed(IF queue_items = <<>> THEN None
                                            ELSE Head(queue_items), None),
                    accepted |-> FALSE]
    /\ UNCHANGED <<serviceVars, callLog, closeLog, vectorClockVars,
                   loadBalancerVars, reactorVars, connectionVars, checkVars,
                   tlsVars, aggregators, class_values>>


----------------------------------------------------------------------------
(* hazelcast/reactor.py: AsyncoreConnection.__init__, the TLS context      *)

\* The values of ssl_config.protocol.
Protocols == {"SSLv2", "SSLv3", "TLSv1", "TLSv1_1", "TLSv1_2", "TLSv1_3",
              "TLS", "SSL"}

\* The statements of the try block, in order: the option each one sets and
\* the protocol values for which it is skipped.
ProtocolOptions ==
    << [option |-> "OP_NO_SSLv2", unless |-> {"SSLv2"}],
       [option |-> "OP_NO_SSLv3", unless |-> {"SSLv3", "SSL"}],
       [option |-> "OP_NO_TLSv1", unless |-> {"TLSv1"}],
       [option |-> "OP_NO_TLSv1_1", unless |-> {"TLSv1_1"}],
       [option |-> "OP_NO_TLSv1_2", unless |-> {"TLSv1_2", "TLS"}],
       [option |-> "OP_NO_TLSv1_3", unless |-> {"TLSv1_3"}] >>

\* The option constants an ssl module can have; which of them it has depends
\* on the Python and OpenSSL it was built with.
OptionConstants == {ProtocolOptions[i].option : i \in 1 .. Len(ProtocolOptions)}

\* The try block from its i-th statement on: ssl.OP_NO_x is looked up only
\* when the condition holds, and the AttributeError of a constant that the
\* ssl module does not have leaves the block.
RECURSIVE OptionsLoop(_, _, _, _)
OptionsLoop(protocol, available, i, options) ==
    IF i > Len(ProtocolOptions) THEN options
    ELSE IF protocol \in ProtocolOptions[i].unless
    THEN OptionsLoop(protocol, available, i + 1, options)
    ELSE IF ProtocolOptions[i].option \notin available
    THEN options
    ELSE OptionsLoop(protocol, available, i + 1,
                     options \cup {ProtocolOptions[i].option})

\* ssl_context = ssl.SSLContext(ssl.PROTOCOL_SSLv23) with the options of the
\* configured protocol and ssl_context.verify_mode = ssl.CERT_REQUIRED
SSLContext(protocol, available) ==
    [options |-> OptionsLoop(protocol, available, 1, {}),
     verify_mode |-> VerifyMode]

\* The TLS part of __init__ with ssl_config.enabled, on an ssl module that
\* has the constants in available.
build_ssl_context(protocol, available) ==
    /\ Idle
    /\ ssl_context' = SSLContext(protocol, available)
    /\ lastCall' = [op |-> "build_ssl_context", protocol |-> protocol,
                    available |-> available]
    /\ UNCHANGED <<serviceVars, callLog, closeLog, vectorClockVars,
                   loadBalancerVars, reactorVars, connectionVars, proxyVars,
                   checkVars>>


----------------------------------------------------------------------------
(* hazelcast/cluster.py: a load balancer on the cluster service            *)

\* The registrations of the balancer's _listener in the cluster service.
BalancerRegistrations(listeners) ==
    {listeners[i].id : i \in {j \in 1 .. Len(listeners) :
                                  listeners[j].member_added = "lb_listener"}}

\* get_members() without a selector: list(snapshot.members.values())
GetMembers(snapshot) == snapshot.members

\* self._members after the callbacks in calls: _listener, invoked for a
\* member_added or a member_removed event, stores the get_members() of the
\* snapshot published by then.  BalancerMembersAfterAddedOnly is the faulty
\* variant of a balancer that listens to member_added alone.
BalancerMembersAfterAddedOnly(calls, listeners, members, snapshot) ==
    IF \E i \in 1 .. Len(calls) :
           /\ calls[i].listener \in BalancerRegistrations(listeners)
           /\ calls[i].event = "member_added"
    THEN GetMembers(snapshot)
    ELSE members

BalancerMembersAfter(calls, listeners, members, snapshot) ==
    IF \E i \in 1 .. Len(calls) :
           calls[i].listener \in BalancerRegistrations(listeners)
    THEN GetMembers(snapshot)
    ELSE members

\* AbstractLoadBalancer.init(cluster_service, config), called once:
\* cluster_service.add_listener(self._listener, self._listener, True)
lb_init ==
    /\ BalancerRegistrations(cluster_listeners) = {}
    /\ AddListener("lb_listener", "lb_listener", TRUE)
    /\ lb_members' = BalancerMembersAfter(callLog', cluster_listeners',
                                          lb_members, member_list_snapshot)
    /\ nextLog' = <<>>
    /\ UNCHANGED <<lb_idx, vectorClockVars, reactorVars, connectionVars,
                   otherVars>>

\* handle_members_view_event(version, member_infos) of a cluster service
\* whose listeners are those of the application and the balancer's.
handle_members_view_event_lb(version, member_infos) ==
    /\ HandleMembersViewEvent(version, member_infos)
    /\ lb_members' = BalancerMembersAfter(callLog', cluster_listeners,
                                          lb_members, lastCall'.at_events)
    /\ nextLog' = <<>>
    /\ UNCHANGED <<lb_idx, vectorClockVars, reactorVars, connectionVars,
                   otherVars>>


----------------------------------------------------------------------------
(* hazelcast/proxy/aggregator.py: DistinctValuesAggregator                 *)

\* The instances made in a behaviour, their attribute paths and the values
\* read from a stream.
AggregatorIds == {"agg1", "agg2", "agg3"}
AttributePaths == {"p", "q"}
StreamValues == {"x", "y"}

\* The inputs handed to read_data: what read_utf returns, the int that
\* follows it and the objects after it.
Inputs ==
    {[attribute_path |-> path, count |-> Len(values), values |-> values] :
        path \in AttributePaths, values \in Arrangements(StreamValues)}

\* The object on which the attribute lookup self.values finds values: no
\* method assigns self.values, so an instance has no attribute of that name
\* and the lookup ends at the class.
ValuesOwner(instance) == "DistinctValuesAggregator"

\* input.read_int, which the code does not call: the bound method itself.
ReadIntAttribute(input) == [type |-> "method", value |-> 0]

\* range(0, count): the indices, or the TypeError of a count that is not an
\* integer.
RangeTo(count) ==
    IF count.type = "int"
    THEN [error |-> None, indices |-> 1 .. count.value]
    ELSE [error |-> "TypeError", indices |-> {}]

\* The values the loop of read_data adds to self.values.
ValuesRead(input) ==
    {input.values[i] : i \in RangeTo(ReadIntAttribute(input)).indices}

\* What write_data hands to the output.
Written(attribute_path, values) ==
    [attribute_path |-> attribute_path, count |-> Len(values), values |-> values]

NothingWritten == Written(None, <<>>)

\* DistinctValuesAggregator(attribute_path)
aggregator_new(instance, attribute_path) ==
    /\ Idle
    /\ instance \notin DOMAIN aggregators
    /\ aggregators' = [i \in DOMAIN aggregators \cup {instance} |->
                          IF i = instance THEN [attribute_path |-> attribute_path]
                          ELSE aggregators[i]]
    /\ lastCall' = [op |-> "aggregator_new", instance |-> instance,
                    error |-> None, written |-> NothingWritten]
    /\ UNCHANGED <<serviceVars, callLog, closeLog, vectorClockVars,
                   loadBalancerVars, reactorVars, connectionVars, checkVars,
                   tlsVars, queue_items, class_values>>

\* read_data(input)
read_data(instance, input) ==
    /\ Idle
    /\ instance \in DOMAIN aggregators
    /\ aggregators' = [aggregators EXCEPT
                          ![instance].attribute_path = input.attribute_path]
    /\ class_values' = class_values \cup ValuesRead(input)
    /\ lastCall' = [op |-> "read_data", instance |-> instance,
                    error |-> RangeTo(ReadIntAttribute(input)).error,
                    written |-> NothingWritten]
    /\ UNCHANGED <<serviceVars, callLog, closeLog, vectorClockVars,
                   loadBalancerVars, reactorVars, connectionVars, checkVars,
                   tlsVars, queue_items>>

\* write_data(output): the attribute path, the number of values and the
\* values, in an order of the set.
write_data(instance) ==
    /\ Idle
    /\ instance \in DOMAIN aggregators
    /\ \E values \in SetOrders(class_values) :
           lastCall' = [op |-> "write_data", instance |-> instance,
                        error |-> None,
                        written |-> Written(aggregators[instance].attribute_path,
                                            values)]
    /\ UNCHANGED <<serviceVars, callLog, closeLog, vectorClockVars,
                   loadBalancerVars, reactorVars, connectionVars, checkVars,
                   tlsVars, proxyVars>>


----------------------------------------------------------------------------
(* hazelcast/reactor.py: _check_timers, statement by statement, with       *)
(* callbacks that add and cancel timers                                    *)

\* A callback that calls add_timer_absolute(end, ...) of a timer whose
\* callback returns, and one that cancels the timer it holds.
AddingCallback(end) == [does |-> "adds", correlation_id |-> 0, end |-> end]

CancellingCallback(timer) ==
    [does |-> "cancels", correlation_id |-> 0, timer |-> timer]

\* The timer objects after timer_ended_cb() of the timer fired.
ObjectsAfterCallback(objects, fired) ==
    LET callback == objects[fired].timer_ended_cb
    IN  IF callback.does = "adds"
        THEN Append(objects, Timer(callback.end, Callback("returns", 0)))
        ELSE IF callback.does = "cancels"
        THEN [objects EXCEPT ![callback.timer].canceled = TRUE]
        ELSE objects

\* The queue after timer_ended_cb() of the timer fired: add_timer_absolute
\* pushes the new timer, cancel removes an entry through _cleanup_timer.
QueueAfterCallback(objects, queue, fired) ==
    LET callback == objects[fired].timer_ended_cb
    IN  IF callback.does = "adds"
        THEN HeapPushed(ObjectsAfterCallback(objects, fired), queue,
                        Len(objects) + 1)
        ELSE IF callback.does = "cancels"
        THEN ListRemoved(objects, queue, callback.timer)
        ELSE queue

\* The loop of _loop calls _check_timers: now = time.time()
check_timers_called ==
    /\ Idle
    /\ reactor_thread = "running"
    /\ reactor_is_live
    /\ checking.pc = "idle"
    /\ checking' = [pc |-> "peek", timer |-> 0, time |-> now]
    /\ UNCHANGED <<serviceVars, lastCall, callLog, closeLog, vectorClockVars,
                   loadBalancerVars, reactorVars, connectionVars, proxyVars,
                   tlsVars>>

\* while not self._timers.empty(): timer = self._timers.queue[0][1] and
\* timer.check_timer(now), which runs the callback of a timer that has ended.
\* A callback that adds a timer runs while there is room for the timer.
check_timers_checks ==
    /\ checking.pc = "peek"
    /\ IF timers = <<>>
       THEN /\ checking' = NotChecking
            /\ UNCHANGED <<timers, timer_objects, timerLog>>
       ELSE LET timer == timers[1]
                outcome == CheckTimer(timer_objects[timer], checking.time)
            IN  IF outcome = "not_ended"
                THEN /\ checking' = NotChecking
                     /\ UNCHANGED <<timers, timer_objects, timerLog>>
                ELSE IF outcome = "canceled"
                THEN /\ checking' = [checking EXCEPT !.pc = "get", !.timer = timer]
                     /\ UNCHANGED <<timers, timer_objects, timerLog>>
                ELSE /\ Len(ObjectsAfterCallback(timer_objects, timer)) <= MaxTimers
                     /\ checking' = [checking EXCEPT !.pc = "get", !.timer = timer]
                     /\ timer_objects' = ObjectsAfterCallback(timer_objects, timer)
                     /\ timers' = QueueAfterCallback(timer_objects, timers, timer)
                     /\ timerLog' = timerLog \o TimerLogRecords(timer_objects, <<timer>>,
                                                               "_check_timers")
    /\ UNCHANGED <<serviceVars, lastCall, callLog, closeLog, reactor_is_live,
                   reactor_thread, now, socket_map, connection_states, invocations,
                   vectorClockVars, loadBalancerVars, connectionVars, proxyVars,
                   tlsVars>>

\* self._timers.get_nowait() after check_timer returned True: the head of
\* the queue leaves it; queue.Empty is ignored.
check_timers_gets ==
    /\ checking.pc = "get"
    /\ timers' = IF timers = <<>> THEN timers ELSE HeapPopped(timer_objects, timers)
    /\ checking' = [checking EXCEPT !.pc = "peek"]
    /\ UNCHANGED <<serviceVars, lastCall, callLog, closeLog, reactor_is_live,
                   reactor_thread, timer_objects, now, socket_map,
                   connection_states, invocations, timerLog, vectorClockVars,
                   loadBalancerVars, connectionVars, proxyVars, tlsVars>>


----------------------------------------------------------------------------
(* Specifications.  The services hold no reference to each other's state,  *)
(* so each is explored on its own.                                         *)

\* The state after the constructors, with the configured lifecycle
\* listeners registered.
InitWith(config, svc) ==
    /\ partition_table = InitialPartitionTable
    /\ partition_count = 0
    /\ member_list_snapshot = EMPTY_SNAPSHOT
    /\ cluster_listeners = <<>>
    /\ initial_list_fetched = FALSE
    /\ active_connections = {}
    /\ viewHistory = NoViews
    /\ running = FALSE
    /\ lifecycle_listeners = ListenersOfConfig(config)
    /\ registrations = Len(config)
    /\ service = svc
    /\ client = NoClient
    /\ lastCall = NoCall
    /\ callLog = <<>>
    /\ closeLog = {}
    /\ InitObjects

InitPartition == InitWith(<<>>, "partition")

NextPartition ==
    \/ \E connection \in Connections, partitions \in PartitionEntries,
          version \in Versions :
           handle_partitions_view_event(connection, partitions, version)
    \/ call_returned

SpecPartition == InitPartition /\ [][NextPartition]_vars

NextPartitionKeys ==
    \/ \E offered \in PartitionCounts : check_and_set_partition_count(offered)
    \/ \E hash \in PartitionHashes : get_partition_id(hash)
    \/ \E key \in Keys : string_partition_strategy(key)
    \/ call_returned

\* The partition count and the mapping of keys to partitions, which do not
\* depend on the partition table.
SpecPartitionKeys == InitPartition /\ [][NextPartitionKeys]_vars

InitCluster == InitWith(<<>>, "cluster")

NextCluster ==
    \/ \E version \in Versions, member_infos \in MemberInfos :
           handle_members_view_event(version, member_infos)
    \/ clear_member_list_version
    \/ wait_initial_member_list_fetched
    \/ \E kind \in ListenerKinds, fire_for_existing \in BOOLEAN :
           cluster_add_listener(kind[1], kind[2], fire_for_existing)
    \/ \E registration_id \in 1 .. MaxRegistrations :
           cluster_remove_listener(registration_id)
    \/ call_returned

\* The cluster service with its listeners, while the connection manager
\* holds no connection to a member.
SpecCluster == InitCluster /\ [][NextCluster]_vars

\* The state after _InternalClusterService.start(connection_manager,
\* membership_listeners) with one configured membership listener.
InitClusterConnections ==
    /\ partition_table = InitialPartitionTable
    /\ partition_count = 0
    /\ member_list_snapshot = EMPTY_SNAPSHOT
    /\ cluster_listeners =
           <<[id |-> 1, member_added |-> "returns", member_removed |-> "returns"]>>
    /\ initial_list_fetched = FALSE
    /\ active_connections = {}
    /\ viewHistory = NoViews
    /\ running = FALSE
    /\ lifecycle_listeners = <<>>
    /\ registrations = 1
    /\ service = "cluster"
    /\ client = NoClient
    /\ lastCall = NoCall
    /\ callLog = <<>>
    /\ closeLog = {}
    /\ InitObjects

NextClusterConnections ==
    \/ \E version \in Versions, member_infos \in MemberInfos :
           handle_members_view_event(version, member_infos)
    \/ clear_member_list_version
    \/ \E member_uuid \in Uuids : connection_opened(member_uuid)
    \/ call_returned

\* The cluster service with the connections of the connection manager.
SpecClusterConnections ==
    InitClusterConnections /\ [][NextClusterConnections]_vars

InitLifecycle ==
    \E config \in ConfiguredLifecycleListeners : InitWith(config, "lifecycle")

NextLifecycle ==
    \/ start
    \/ shutdown
    \/ \E new_state \in LifecycleStates \ {"STARTING", "STARTED"} :
           fire_lifecycle_event(new_state)
    \/ \E on_state_change \in Handlers : lifecycle_add_listener(on_state_change)
    \/ \E registration_id \in 1 .. MaxRegistrations :
           lifecycle_remove_listener(registration_id)
    \/ \E registration_id \in 1 .. MaxRegistrations :
           LifecycleService_remove_listener(registration_id)
    \/ call_returned

SpecLifecycle == InitLifecycle /\ [][NextLifecycle]_vars

InitListeners ==
    \/ InitCluster
    \/ InitLifecycle

NextListeners ==
    \/ service = "cluster" /\ NextCluster
    \/ service = "lifecycle" /\ NextLifecycle

\* The two services that dispatch to listeners, each on its own.
SpecListeners == InitListeners /\ [][NextListeners]_vars

\* The state in which the construction of a client starts: the services
\* constructed, the configured lifecycle listeners registered.
InitStartup ==
    /\ partition_table = InitialPartitionTable
    /\ partition_count = 0
    /\ member_list_snapshot = EMPTY_SNAPSHOT
    /\ cluster_listeners = <<>>
    /\ initial_list_fetched = FALSE
    /\ active_connections = {}
    /\ viewHistory = NoViews
    /\ running = FALSE
    /\ \E config \in ConfiguredLifecycleListeners :
           /\ lifecycle_listeners = ListenersOfConfig(config)
           /\ registrations = Len(config)
    /\ service = "client"
    /\ \E ssl_config \in SSLConfigs, ma_required \in BOOLEAN :
           client = NewClient(ssl_config, ma_required)
    /\ lastCall = NoCall
    /\ callLog = <<>>
    /\ closeLog = {}
    /\ InitObjects

\* The construction calls the services in its order; the members views
\* arrive on the reactor thread once the connection is live.
NextStartup ==
    \/ client.step = "lifecycle" /\ start
    \/ client_starts_service
    \/ client_connects
    \/ client.step = "wait_initial_member_list" /\ wait_initial_member_list_fetched
    \/ client.step = "shutdown" /\ shutdown
    \/ client_continues
    \/ \E version \in Versions, member_infos \in MemberInfos :
           /\ client.connection = "live"
           /\ handle_members_view_event(version, member_infos)
    \/ lastCall.op = "handle_members_view_event" /\ call_returned

SpecStartup == InitStartup /\ [][NextStartup]_vars

\* The state of the services while an object they hold no reference to is
\* exercised.
InitServices(object) ==
    /\ partition_table = InitialPartitionTable
    /\ partition_count = 0
    /\ member_list_snapshot = EMPTY_SNAPSHOT
    /\ cluster_listeners = <<>>
    /\ initial_list_fetched = FALSE
    /\ active_connections = {}
    /\ viewHistory = NoViews
    /\ running = FALSE
    /\ lifecycle_listeners = <<>>
    /\ registrations = 0
    /\ service = object
    /\ client = NoClient
    /\ lastCall = NoCall
    /\ callLog = <<>>
    /\ closeLog = {}

InitVectorClock == InitServices("vector_clock") /\ InitObjects

NextVectorClock ==
    \/ \E name \in ClockNames, replica_id \in ReplicaIds, timestamp \in Timestamps :
           set_replica_timestamp(name, replica_id, timestamp)
    \/ \E self \in ClockNames, other \in ClockNames : is_after(self, other)
    \/ call_returned

\* Vector clocks that are set and compared.
SpecVectorClock == InitVectorClock /\ [][NextVectorClock]_vars

InitRoundRobin == InitServices("load_balancer") /\ InitObjects

NextRoundRobin ==
    \/ \E members \in MemberInfos : lb_listener(members)
    \/ round_robin_next

\* A round robin load balancer whose callers call next() one at a time.
SpecRoundRobin == InitRoundRobin /\ [][NextRoundRobin]_vars

InitReactorOnly == InitServices("reactor") /\ InitObjects

\* The timers of a reactor: application threads add and cancel timers, the
\* reactor thread checks them, and the reactor is shut down.
NextTimers ==
    \/ reactor_start
    \/ tick
    \/ \E timeout \in Times, callback \in TimerCallbacks :
           add_timer_absolute(timeout, callback)
    \/ \E delay \in Times, callback \in TimerCallbacks : add_timer(delay, callback)
    \/ \E timer \in 1 .. MaxTimers : timer_cancel(timer)
    \/ check_timers
    \/ reactor_shutdown("application")
    \/ reactor_shutdown_joined
    \/ reactor_thread_exits
    \/ call_returned

SpecTimers == InitReactorOnly /\ [][NextTimers]_vars

\* The connections of a reactor and its shutdown, from an application
\* thread or from the reactor thread, with timers that return.
NextReactor ==
    \/ reactor_start
    \/ \E connection_id \in Connections : connection_factory(connection_id)
    \/ \E timeout \in Times : add_timer_absolute(timeout, Callback("returns", 0))
    \/ \E caller \in {"application", "reactor"} : reactor_shutdown(caller)
    \/ reactor_shutdown_joined
    \/ reactor_thread_exits
    \/ call_returned

SpecReactor == InitReactorOnly /\ [][NextReactor]_vars

\* Invocations with their deadline timers next to other timers.
NextInvocations ==
    \/ reactor_start
    \/ tick
    \/ \E deadline \in Times : invoke(deadline)
    \/ \E correlation_id \in 1 .. MaxInvocations : handle_response(correlation_id)
    \/ \E timeout \in Times : add_timer_absolute(timeout, Callback("returns", 0))
    \/ \E timer \in 1 .. MaxTimers : timer_cancel(timer)
    \/ check_timers
    \/ call_returned

SpecInvocations == InitReactorOnly /\ [][NextInvocations]_vars

\* The state after AsyncoreConnection.__init__ on a started reactor: the
\* connection is in the socket map and the preamble in its write queue.
InitConnection ==
    /\ InitServices("connection")
    /\ InitVectorClocks
    /\ InitLoadBalancer
    /\ reactor_is_live = TRUE
    /\ reactor_thread = "running"
    /\ timers = <<>>
    /\ timer_objects = <<>>
    /\ now = 0
    /\ socket_map = {TheConnection}
    /\ connection_states =
           [c \in {TheConnection} |-> [live |-> TRUE, cause |-> NoCause]]
    /\ invocations = <<>>
    /\ timerLog = <<>>
    /\ write_queue = <<CP2>>
    /\ write_lock = None
    /\ sent_protocol_bytes = FALSE
    /\ threads = [t \in Threads |-> NotWriting]
    /\ socket_bytes = <<>>
    /\ InitQueue
    /\ InitAggregators
    /\ InitChecking
    /\ InitContext

\* Producers call _write while the reactor thread handles the write events
\* of the connection.
NextConnectionWrites ==
    \/ \E thread \in Producers : write_called(thread)
    \/ \E thread \in Producers : write_acquires(thread)
    \/ \E thread \in Producers : write_appends(thread)
    \/ handle_write_called
    \/ handle_write_acquires
    \/ handle_write_pops
    \/ \E thread \in Threads, sent \in 0 .. FrameLen + 1 : thread_sends(thread, sent)
    \/ \E thread \in Threads : thread_requeues(thread)
    \/ \E thread \in Threads : thread_releases(thread)

SpecConnectionWrites == InitConnection /\ [][NextConnectionWrites]_vars

\* The read and write events of a connection with what the socket brings.
NextConnectionEvents ==
    \/ handle_write_called
    \/ handle_write_acquires
    \/ handle_write_pops
    \/ \E sent \in 0 .. FrameLen + 1 : thread_sends("reactor", sent)
    \/ thread_requeues("reactor")
    \/ thread_releases("reactor")
    \/ \E outcome \in ReadOutcomes : handle_read(outcome)
    \/ \E outcome \in FailedOutcomes : handle_write_fails(outcome)
    \/ call_returned

SpecConnectionEvents == InitConnection /\ [][NextConnectionEvents]_vars

\* A queue proxy whose callers offer, add and poll items.
InitQueueOnly == InitServices("queue") /\ InitObjects

NextQueue ==
    \/ \E item \in QueueItems \cup {None} : queue_offer(item)
    \/ \E item \in QueueItems \cup {None} : queue_add(item)
    \/ queue_poll
    \/ call_returned

SpecQueue == InitQueueOnly /\ [][NextQueue]_vars


\* Connections are made with TLS enabled, each with a protocol of its
\* configuration.
InitTLSContext == InitServices("tls") /\ InitObjects

NextTLSContext ==
    \/ \E protocol \in Protocols, available \in SUBSET OptionConstants :
           build_ssl_context(protocol, available)
    \/ call_returned

SpecTLSContext == InitTLSContext /\ [][NextTLSContext]_vars


\* A load balancer initialised on a cluster service that handles members
\* views, next to listeners of the application whose callbacks raise.
InitBalancer == InitWith(<<>>, "load_balancer")

NextBalancer ==
    \/ lb_init
    \/ \E version \in Versions, member_infos \in MemberInfos :
           handle_members_view_event_lb(version, member_infos)
    \/ clear_member_list_version
    \/ cluster_add_listener("raises", "raises", FALSE)
    \/ call_returned

SpecBalancer == InitBalancer /\ [][NextBalancer]_vars


\* Aggregators are made, read from streams and written.
InitAggregator == InitServices("aggregator") /\ InitObjects

NextAggregator ==
    \/ \E instance \in AggregatorIds, attribute_path \in AttributePaths :
           aggregator_new(instance, attribute_path)
    \/ \E instance \in AggregatorIds, input \in Inputs : read_data(instance, input)
    \/ \E instance \in AggregatorIds : write_data(instance)
    \/ call_returned

SpecAggregator == InitAggregator /\ [][NextAggregator]_vars


\* The reactor thread checks the timers statement by statement while
\* application threads add and cancel timers; the callbacks return, add a
\* timer that is due at once, or cancel a timer.
NextTimerChecks ==
    \/ reactor_start
    \/ tick
    \/ \E timeout \in Times : add_timer_absolute(timeout, Callback("returns", 0))
    \/ \E timeout \in Times :
           /\ Len(timer_objects) = 0
           /\ add_timer_absolute(timeout, AddingCallback(0))
    \/ \E timeout \in Times, timer \in 1 .. MaxTimers :
           /\ timer <= Len(timer_objects)
           /\ add_timer_absolute(timeout, CancellingCallback(timer))
    \/ \E timer \in 1 .. MaxTimers : timer_cancel(timer)
    \/ check_timers_called
    \/ check_timers_checks
    \/ check_timers_gets

SpecTimerChecks == InitReactorOnly /\ [][NextTimerChecks]_vars


\* Three vector clocks that are set and compared with one another.
OrderedClocks == {"A", "B", "C"}

InitClockOrder ==
    /\ InitServices("vector_clock")
    /\ vector_clocks = [name \in OrderedClocks |-> EmptyClock]
    /\ InitLoadBalancer
    /\ InitReactor
    /\ InitNoConnection
    /\ InitQueue
    /\ InitAggregators
    /\ InitChecking
    /\ InitContext

NextClockOrder ==
    \/ \E name \in OrderedClocks, replica_id \in ReplicaIds,
          timestamp \in 1 .. MaxOrderTimestamp :
           set_replica_timestamp(name, replica_id, timestamp)
    \/ \E self \in OrderedClocks, other \in OrderedClocks : is_after(self, other)
    \/ call_returned

SpecClockOrder == InitClockOrder /\ [][NextClockOrder]_vars


----------------------------------------------------------------------------
(* Properties of the partition service, checked under SpecPartition.       *)

IsPartitionsView == lastCall.op = "handle_partitions_view_event"

\* The admission rule as the specification words it: entries non-empty, and
\* a source connection other than the table's or a strictly greater version.
Admitted(call) ==
    /\ call.partitions # <<>>
    /\ \/ call.connection # call.before.connection
       \/ call.version > call.before.version

\* The pairs of a view that list partition p.
Listing(partitions, p) == {i \in 1 .. Len(partitions) : p \in partitions[i][2]}

\* The owner a view gives for p: that of the last pair that lists p.
OwnerGiven(partitions, p) ==
    LET last == CHOOSE i \in Listing(partitions, p) :
                    \A j \in Listing(partitions, p) : j <= i
    IN  partitions[last][1]

\* C1: handle_partitions_view_event applies an incoming view if and only if
\* its entries are non-empty and its source connection differs from the
\* table's or its version is strictly greater: in that case the table becomes
\* the one built from the view, in every other case the table stays as it was.
C1_AppliedIffAdmitted ==
    IsPartitionsView =>
        /\ Admitted(lastCall) <=> partition_table # lastCall.before
        /\ Admitted(lastCall) =>
               /\ partition_table.connection = lastCall.connection
               /\ partition_table.version = lastCall.version
        /\ ~Admitted(lastCall) => partition_table = lastCall.before

\* A view newer than the table arrived on the table's own connection and
\* replaced it.
C1_Witness ==
    /\ IsPartitionsView
    /\ lastCall.connection = lastCall.before.connection
    /\ lastCall.version > lastCall.before.version
    /\ partition_table.version = lastCall.version
    /\ partition_table.partitions # lastCall.before.partitions

\* C2: a rejected view (empty entries, or the table's own connection with a
\* version lower than or equal to the table's) leaves the source connection,
\* the version and the owner of every partition as they were.
C2_RejectedViewChangesNothing ==
    (/\ IsPartitionsView
     /\ \/ lastCall.partitions = <<>>
        \/ /\ lastCall.connection = lastCall.before.connection
           /\ lastCall.version <= lastCall.before.version)
    => /\ partition_table.connection = lastCall.before.connection
       /\ partition_table.version = lastCall.before.version
       /\ \A p \in PartitionIds :
              get_partition_owner(p) = GetPartitionOwnerIn(lastCall.before, p)

\* The view that built the table is delivered again on the same connection,
\* and a stale view with other owners arrives on it.
C2_Witness ==
    /\ IsPartitionsView
    /\ lastCall.partitions # <<>>
    /\ lastCall.connection = lastCall.before.connection
    /\ lastCall.version <= lastCall.before.version
    /\ \E p \in PartitionIds :
           /\ Listing(lastCall.partitions, p) # {}
           /\ OwnerGiven(lastCall.partitions, p) # get_partition_owner(p)

\* C3: a non-empty view from a connection other than the table's replaces
\* the table whatever its version, and as a whole: every partition the view
\* lists is owned by the owner the view gives for it, every other partition
\* has no owner.
C3_NewSourceReplacesWhole ==
    (/\ IsPartitionsView
     /\ lastCall.partitions # <<>>
     /\ lastCall.connection # lastCall.before.connection)
    => /\ partition_table.connection = lastCall.connection
       /\ partition_table.version = lastCall.version
       /\ \A p \in PartitionIds :
              get_partition_owner(p) =
                  IF Listing(lastCall.partitions, p) = {} THEN None
                  ELSE OwnerGiven(lastCall.partitions, p)

\* A view of a lower version from another connection replaced a table that
\* had an owner for a partition the view does not list.
C3_Witness ==
    /\ IsPartitionsView
    /\ lastCall.before.connection # None
    /\ lastCall.connection # lastCall.before.connection
    /\ lastCall.version < lastCall.before.version
    /\ partition_table.connection = lastCall.connection
    /\ \E p \in PartitionIds :
           /\ GetPartitionOwnerIn(lastCall.before, p) # None
           /\ get_partition_owner(p) = None

----------------------------------------------------------------------------
(* Properties of the cluster service.                                      *)

IsMembersView == lastCall.op = "handle_members_view_event"

IsPublished == IsMembersView /\ lastCall.applied

\* The indices of callLog at which the listener is invoked for the event
\* and the member.
CallsOf(log, event, member, listener_id) ==
    {i \in 1 .. Len(log) : /\ log[i].event = event
                           /\ log[i].member = member
                           /\ log[i].listener = listener_id}

\* C4, as claimed: over any sequence of handle_members_view_event and
\* clear_member_list_version calls, a published snapshot never has a version
\* lower than one published before it.
C4_Original_NeverLowerVersion ==
    IsPublished => lastCall.version >= viewHistory.published

\* C4, amended: a published snapshot never has a version lower than one
\* published before it since the last clear_member_list_version call (or
\* since the start when there was none).
C4_MonotonicSinceClear ==
    IsPublished => lastCall.version >= viewHistory.published_since_clear

\* After a clear_member_list_version a snapshot of a version lower than an
\* earlier one is published.
C4_Witness ==
    /\ IsPublished
    /\ lastCall.version < viewHistory.published
    /\ member_list_snapshot.version = lastCall.version

SameGroup(a, b) == a.event = b.event /\ a.member = b.member

\* The listeners that have a callback for the event.
ListenersFor(event) ==
    {cluster_listeners[k].id : k \in
        {k \in 1 .. Len(cluster_listeners) :
            HandlerOf(event, cluster_listeners[k]) # None}}

C6_DeadMembersDisconnected ==
    [][(IsMembersView' /\ lastCall'.applied) =>
          LET old == Range(member_list_snapshot.members)
              new == Range(member_list_snapshot'.members)
          IN  /\ \A m \in (old \ new) \cap active_connections :
                     /\ m \notin active_connections'
                     /\ [member |-> m, cause |-> "TargetDisconnectedError"]
                            \in closeLog'
              /\ \A m \in old \cap new :
                     /\ m \in active_connections' <=> m \in active_connections
                     /\ \A r \in closeLog' : r.member # m
                     /\ \A i \in 1 .. Len(callLog') : callLog'[i].member # m]_vars

\* A view closed the connection of a member that left, while a member that
\* stayed (the listener got no event for it) keeps its connection.
C6_Witness ==
    /\ IsPublished
    /\ closeLog # {}
    /\ \A r \in closeLog : r.member \notin active_connections
    /\ \E m \in Range(member_list_snapshot.members) \cap active_connections :
           \A i \in 1 .. Len(callLog) : callLog[i].member # m

\* C7, as claimed: as long as no members view that carries a member has
\* been handled, the gate is unset and wait_initial_member_list_fetched does
\* not return successfully.
C7_Original_GateNeedsMembers ==
    ~viewHistory.non_empty =>
        /\ ~initial_list_fetched
        /\ ~(lastCall.op = "wait_initial_member_list_fetched"
             /\ lastCall.result = "returned")

\* C7, amended: the gate is released by the first members view handled, also
\* when that view carries no member: the gate is set exactly when a members
\* view has been handled, and wait_initial_member_list_fetched returns
\* successfully only then.
C7_GateSetByFirstView ==
    /\ initial_list_fetched <=> viewHistory.handled
    /\ lastCall.op = "wait_initial_member_list_fetched" =>
           (lastCall.result = "returned" <=> viewHistory.handled)

\* The wait returned although every view handled so far was empty.
C7_Witness ==
    /\ viewHistory.handled
    /\ ~viewHistory.non_empty
    /\ initial_list_fetched
    /\ lastCall.op = "wait_initial_member_list_fetched"
    /\ lastCall.result = "returned"

IsClear == lastCall.op = "clear_member_list_version"

\* C8, as claimed: in whatever state clear_member_list_version is called,
\* the version of the current snapshot is 0 afterwards.
C8_Original_VersionZeroInAnyState ==
    IsClear => member_list_snapshot.version = 0

\* C8, amended: clear_member_list_version sets the version of the current
\* snapshot to 0 unless the snapshot is still the initial empty snapshot,
\* which it leaves as it is (version -1); in both cases the members and their
\* order, the listeners and the gate stay as they were, and the next members
\* view with a version >= 0 is published.
C8_ClearResetsOnlyVersion ==
    [][/\ IsClear' =>
            /\ member_list_snapshot'.version =
                   (IF member_list_snapshot.sentinel THEN -1 ELSE 0)
            /\ member_list_snapshot'.members = member_list_snapshot.members
            /\ member_list_snapshot'.sentinel = member_list_snapshot.sentinel
            /\ cluster_listeners' = cluster_listeners
            /\ initial_list_fetched' = initial_list_fetched
       /\ (/\ IsMembersView'
           /\ viewHistory.published_since_clear = -1
           /\ lastCall'.version >= 0) =>
            /\ lastCall'.applied
            /\ member_list_snapshot'.version = lastCall'.version
            /\ member_list_snapshot'.members = lastCall'.member_infos]_vars

\* The version of a snapshot with members is back at 0, with a listener
\* registered and the gate set.
C8_Witness ==
    /\ IsClear
    /\ member_list_snapshot.version = 0
    /\ viewHistory.published > 0
    /\ member_list_snapshot.members # <<>>
    /\ cluster_listeners # <<>>
    /\ initial_list_fetched

----------------------------------------------------------------------------
(* Properties of listener dispatch and of the lifecycle service.           *)

IsStart == lastCall.op = "start"

\* The lifecycle listeners that are not None.
LifecycleListenerIds ==
    {lifecycle_listeners[k].id : k \in
        {k \in 1 .. Len(lifecycle_listeners) :
            lifecycle_listeners[k].on_state_change # None}}

\* The indices of callLog at which the lifecycle listener is invoked with
\* the state.
LifecycleCallsOf(log, new_state, listener_id) ==
    {i \in 1 .. Len(log) : /\ log[i].event = new_state
                           /\ log[i].listener = listener_id}

\* C9: an exception raised by a listener is caught.  In a published members
\* view every listener that has the callback is invoked once for every
\* removed and for every added member, whichever listeners raise, and the
\* new snapshot is the current one afterwards; fire_lifecycle_event invokes
\* every listener once, and start() of a service that is not running invokes
\* every listener with STARTING and with STARTED and leaves running True.
C9_ListenerExceptionsCaught ==
    [][/\ (IsMembersView' /\ lastCall'.applied) =>
            /\ member_list_snapshot'.version = lastCall'.version
            /\ member_list_snapshot'.members = lastCall'.member_infos
            /\ \A m \in DeadMembers(member_list_snapshot, member_list_snapshot') :
                   \A id \in ListenersFor("member_removed") :
                       Cardinality(CallsOf(callLog', "member_removed", m, id)) = 1
            /\ \A m \in Range(NewMembers(member_list_snapshot, member_list_snapshot')) :
                   \A id \in ListenersFor("member_added") :
                       Cardinality(CallsOf(callLog', "member_added", m, id)) = 1
       /\ (lastCall'.op = "fire_lifecycle_event") =>
            \A id \in LifecycleListenerIds :
                Cardinality(LifecycleCallsOf(callLog', lastCall'.new_state, id)) = 1
       /\ (IsStart' /\ ~running) =>
            /\ running'
            /\ \A id \in LifecycleListenerIds :
                   /\ Cardinality(LifecycleCallsOf(callLog', "STARTING", id)) = 1
                   /\ Cardinality(LifecycleCallsOf(callLog', "STARTED", id)) = 1]_vars

\* A membership listener raised for the first of two members and was
\* invoked again for the second, as was the listener after it.
C9_Witness ==
    /\ IsPublished
    /\ \E i, j, k \in 1 .. Len(callLog) :
           /\ i < j /\ j < k
           /\ callLog[i].raised
           /\ callLog[j].member = callLog[i].member
           /\ callLog[j].listener # callLog[i].listener
           /\ callLog[k].member # callLog[i].member
           /\ callLog[k].listener = callLog[i].listener

\* C10: start() of a running service invokes no listener and changes neither
\* running nor the listeners.  Otherwise every listener is invoked exactly
\* twice: with STARTING while running is still False and later with STARTED
\* when running is True; no STARTED invocation precedes a STARTING one, and
\* running is True afterwards.
C10_StartingThenStarted ==
    [][IsStart' =>
          IF running
          THEN /\ callLog' = <<>>
               /\ running'
               /\ lifecycle_listeners' = lifecycle_listeners
          ELSE /\ running'
               /\ lifecycle_listeners' = lifecycle_listeners
               /\ Len(callLog') = 2 * Cardinality(LifecycleListenerIds)
               /\ \A id \in LifecycleListenerIds :
                      \E i, j \in 1 .. Len(callLog') :
                          /\ i < j
                          /\ LifecycleCallsOf(callLog', "STARTING", id) = {i}
                          /\ LifecycleCallsOf(callLog', "STARTED", id) = {j}
                          /\ ~callLog'[i].running
                          /\ callLog'[j].running
               /\ \A i, j \in 1 .. Len(callLog') :
                      (callLog'[i].event = "STARTING"
                       /\ callLog'[j].event = "STARTED") => i < j]_vars

\* A start notified a configured listener and one added later, both with
\* STARTING and with STARTED.
C10_Witness ==
    /\ IsStart
    /\ ~lastCall.was_running
    /\ running
    /\ Len(callLog) = 4
    /\ \E i, j \in 1 .. Len(callLog) :
           /\ callLog[i].listener = 1
           /\ callLog[j].listener = 2
           /\ callLog[i].event = "STARTED"
           /\ callLog[j].event = "STARTED"

----------------------------------------------------------------------------
(* Properties of the construction of a client, checked under SpecStartup.  *)

\* C11: the STARTED lifecycle event is delivered to listeners only after the
\* startup sequence has completed, in particular only when the initial
\* member list has been fetched (the initial-list gate is set).
C11_StartedAfterInitialMemberList ==
    \A i \in 1 .. Len(callLog) :
        callLog[i].event = "STARTED" =>
            /\ initial_list_fetched
            /\ client.step \notin {"lifecycle", "reactor", "connection_manager",
                                   "wait_initial_member_list"}

\* The member's certificate is the one the client's cafile holds.
ServerCertificateTrusted == client.ssl_config.cafile = MemberCertificate

\* The client supplied a certificate the member trusts, or supplied none
\* while the member does not require mutual authentication.
ClientCertificateAccepted ==
    \/ client.ssl_config.certfile \in MemberTrustedClientCertificates
    \/ client.ssl_config.certfile = None /\ ~client.ma_required

----------------------------------------------------------------------------
(* Properties of shutdown and of the removal and addition of listeners.    *)

IsShutdown == lastCall.op = "shutdown"

\* C12: shutdown() is idempotent: after a call running is False, and a call
\* made when running is already False leaves running as it was; no call of
\* shutdown() changes the listener map or invokes a listener.
C12_ShutdownIdempotent ==
    [][IsShutdown' =>
          /\ ~running'
          /\ (~running => running' = running)
          /\ lifecycle_listeners' = lifecycle_listeners
          /\ callLog' = <<>>]_vars

\* shutdown() called on a service that is not running and has listeners.
C12_Witness ==
    /\ IsShutdown
    /\ ~lastCall.was_running
    /\ ~running
    /\ lifecycle_listeners # <<>>

\* C14: the public LifecycleService.remove_listener(registration_id) returns
\* True if the listener was registered and is removed, False otherwise.
C14_PublicRemoveReturnsBool ==
    lastCall.op = "LifecycleService_remove_listener" =>
        lastCall.result = PyBool(lastCall.removed)

IsClusterRemove == lastCall.op = "cluster_remove_listener"

\* The ids of the listeners in a listener map.
IdsOf(listeners) == {listeners[i].id : i \in 1 .. Len(listeners)}

\* C15: remove_listener(id) returns True exactly when id is a registered
\* membership listener (so False for an id removed before); it takes that
\* listener out of the map and leaves the other registrations as they were;
\* a members view handled afterwards invokes only the listeners that are
\* registered then, so no callback of a removed listener.
C15_RemovedListenerNotInvoked ==
    [][/\ IsClusterRemove' =>
            LET id == lastCall'.registration_id
            IN  /\ lastCall'.result = (id \in IdsOf(cluster_listeners))
                /\ id \notin IdsOf(cluster_listeners')
                /\ \A other \in 1 .. MaxRegistrations \ {id} :
                       SelectSeq(cluster_listeners', LAMBDA l : l.id = other)
                       = SelectSeq(cluster_listeners, LAMBDA l : l.id = other)
       /\ (lastCall'.op = "handle_members_view_event") =>
            \A i \in 1 .. Len(callLog') :
                callLog'[i].listener \in IdsOf(cluster_listeners)]_vars

\* A members view invoked the one listener that is left after the removal
\* of the other.
C15_Witness ==
    /\ lastCall.op = "handle_members_view_event"
    /\ callLog # <<>>
    /\ registrations = 2
    /\ Len(cluster_listeners) = 1

IsClusterAdd == lastCall.op = "cluster_add_listener"

\* C16: add_listener with fire_for_existing=True and a member_added callback
\* invokes that callback exactly once for each member of the snapshot current
\* at registration, in snapshot order, and returns the registration id; with
\* fire_for_existing=False it invokes no callback and returns the id; in both
\* cases the listener is registered under the id.
C16_FireForExistingOncePerMember ==
    IsClusterAdd =>
        LET listener == cluster_listeners[Len(cluster_listeners)]
        IN  /\ listener.id = lastCall.registration_id
            /\ lastCall.returned
            /\ IF lastCall.fire_for_existing /\ listener.member_added # None
               THEN /\ Len(callLog) = Len(lastCall.members)
                    /\ \A i \in 1 .. Len(callLog) :
                           /\ callLog[i].event = "member_added"
                           /\ callLog[i].member = lastCall.members[i]
                           /\ callLog[i].listener = listener.id
               ELSE callLog = <<>>

----------------------------------------------------------------------------
(* Properties of the partition count and of the mapping of keys to         *)
(* partitions, checked under SpecPartitionKeys.                            *)

IsGetPartitionId == lastCall.op = "get_partition_id"

\* C17: get_partition_id raises ClientOfflineError whenever the partition
\* count is 0 and otherwise returns an index i with 0 <= i < partition_count;
\* it changes neither the partition count nor the partition table.
C17_OfflineOrIndexInRange ==
    [][IsGetPartitionId' =>
          /\ IF partition_count = 0
             THEN lastCall'.outcome.error = "ClientOfflineError"
             ELSE /\ lastCall'.outcome.error = None
                  /\ lastCall'.outcome.result >= 0
                  /\ lastCall'.outcome.result < partition_count
          /\ partition_count' = partition_count
          /\ partition_table' = partition_table]_vars

\* get_partition_id raised ClientOfflineError: no partition count is set.
C17_Witness ==
    /\ IsGetPartitionId
    /\ partition_count = 0
    /\ lastCall.outcome.error = "ClientOfflineError"

\* The two 16-bit halves of the 32 bits of a hash, each in 0 .. 65535.
LowHalf(hash) == hash % 65536

HighHalf(hash) == ((hash - LowHalf(hash)) \div 65536) % 65536

\* The unsigned value of the 32 bits, HighHalf * 65536 + LowHalf, modulo n.
UnsignedValueMod(hash, n) ==
    (((HighHalf(hash) % n) * (65536 % n)) + (LowHalf(hash) % n)) % n

IsCheckAndSet == lastCall.op = "check_and_set_partition_count"

\* C19: check_and_set_partition_count stores the offered count and returns
\* True while no count is stored; afterwards it returns True exactly when the
\* offered count equals the stored one and stores nothing; once the stored
\* count is non-zero no step changes it.
C19_PartitionCountAssignedOnce ==
    [][/\ IsCheckAndSet' =>
            IF partition_count = 0
            THEN /\ partition_count' = lastCall'.partition_count
                 /\ lastCall'.result
            ELSE /\ partition_count' = partition_count
                 /\ lastCall'.result =
                        (lastCall'.partition_count = partition_count)
       /\ partition_count # 0 => partition_count' = partition_count]_vars

\* A count other than the stored one was offered and refused.
C19_Witness ==
    /\ IsCheckAndSet
    /\ ~lastCall.result
    /\ partition_count # 0
    /\ partition_count # lastCall.partition_count

IsStringPartitionStrategy == lastCall.op = "string_partition_strategy"

\* C20: string_partition_strategy returns None for None, the key itself when
\* it contains no '@', and otherwise the text after the first '@': the key is
\* a prefix without '@', the '@', and the result.  "foo@bar" gives "bar" and
\* "plain" gives "plain".
C20_SuffixAfterFirstAt ==
    IsStringPartitionStrategy =>
        LET key == lastCall.key
            result == lastCall.result
        IN  /\ key = PyNone => result = PyNone
            /\ (key # PyNone /\ "@" \notin Range(key.chars)) => result = key
            /\ (key # PyNone /\ "@" \in Range(key.chars)) =>
                   /\ result # PyNone
                   /\ \E n \in 0 .. (Len(key.chars) - 1) :
                          /\ "@" \notin Range(SubSeq(key.chars, 1, n))
                          /\ key.chars =
                                 SubSeq(key.chars, 1, n) \o <<"@">> \o result.chars
            /\ key = Str(<<"f", "o", "o", "@", "b", "a", "r">>) =>
                   result = Str(<<"b", "a", "r">>)
            /\ key = Str(<<"p", "l", "a", "i", "n">>) => result = key

\* A key with two '@': the result starts after the first and keeps the
\* second.
C20_Witness ==
    /\ IsStringPartitionStrategy
    /\ lastCall.key = Str(<<"a", "@", "@">>)
    /\ lastCall.result = Str(<<"@">>)

----------------------------------------------------------------------------
(* Properties of the vector clock, checked under SpecVectorClock.          *)

IsIsAfter == lastCall.op = "is_after"

\* Every replica of b is present in a with a timestamp not lower than b's.
Dominates(a, b) ==
    \A r \in DOMAIN b : r \in DOMAIN a /\ a[r] >= b[r]

\* A timestamp of a is strictly greater than b's, or a holds a replica that
\* b lacks.
Advances(a, b) ==
    \/ \E r \in DOMAIN b \cap DOMAIN a : a[r] > b[r]
    \/ \E r \in DOMAIN a : r \notin DOMAIN b

\* The clock with these timestamps of r1 and r2; 0 is no timestamp.
ClockOf(t1, t2) ==
    [r \in {x \in ReplicaIds : (x = "r1" /\ t1 > 0) \/ (x = "r2" /\ t2 > 0)} |->
        IF r = "r1" THEN t1 ELSE t2]

\* C21: A.is_after(B) is True exactly when every replica of B is present in
\* A with a timestamp not lower than B's and, in addition, one of these
\* timestamps is strictly greater or A holds a replica that B lacks; it is
\* False for A = {r1:5}, B = {r1:5, r2:1} and True for A = {r1:5, r2:3},
\* B = {r1:4, r2:3}.
C21_IsAfterStrictlyAfter ==
    IsIsAfter =>
        LET a == vector_clocks[lastCall.self]
            b == vector_clocks[lastCall.other]
        IN  /\ lastCall.result = (Dominates(a, b) /\ Advances(a, b))
            /\ (a = ClockOf(5, 0) /\ b = ClockOf(5, 1)) => ~lastCall.result
            /\ (a = ClockOf(5, 3) /\ b = ClockOf(4, 3)) => lastCall.result

\* is_after has compared {r1:5, r2:3} with {r1:4, r2:3} and returned True.
C21_Witness ==
    /\ IsIsAfter
    /\ vector_clocks[lastCall.self] = ClockOf(5, 3)
    /\ vector_clocks[lastCall.other] = ClockOf(4, 3)
    /\ lastCall.result

----------------------------------------------------------------------------
(* Properties of the load balancers, checked under SpecRoundRobin.         *)

\* The place of a member in a list without repetition.
PlaceOf(members, member) == CHOOSE i \in 1 .. Len(members) : members[i] = member

\* The calls i .. i + n - 1 of the log return each member of the list once,
\* each the successor in the list of the one before it, the first member
\* being the successor of the last.
WindowCycles(log, i, members) ==
    LET n == Len(members)
    IN  /\ \A m \in Range(members) :
               Cardinality({k \in i .. i + n - 1 : log[k].result = m}) = 1
        /\ \A k \in i .. i + n - 2 :
               PlaceOf(members, log[k + 1].result)
                   = (PlaceOf(members, log[k].result) % n) + 1

\* C22: with a fixed list of n >= 1 members and callers that call one at a
\* time, any n consecutive next() calls of a RoundRobinLB return each member
\* exactly once in list order; after the list has changed next() still
\* returns an element of the current list, and with an empty list it
\* returns None.
C22_RoundRobinCycles ==
    /\ \A k \in 1 .. Len(nextLog) :
           /\ nextLog[k].members = lb_members
           /\ IF lb_members = <<>> THEN nextLog[k].result = None
              ELSE nextLog[k].result \in Range(lb_members)
    /\ lb_members # <<>> =>
           \A i \in 1 .. Len(nextLog) - Len(lb_members) + 1 :
               WindowCycles(nextLog, i, lb_members)

\* next() has been called four times on a list of three members that was
\* set after earlier calls, so that the first of the four did not return
\* the first member.
C22_Witness ==
    /\ Len(lb_members) = 3
    /\ Len(nextLog) = 4
    /\ nextLog[1].result # lb_members[1]

----------------------------------------------------------------------------
(* Properties of the reactor's timers, checked under SpecTimers.           *)

IsCheckTimers == lastCall.op = "check_timers"

\* C23: after a timer check at the time now no timer that is not cancelled
\* and whose deadline is <= now is left unfired in the queue, no timer with
\* a deadline > now has fired, and the timers have fired in non-decreasing
\* order of their deadlines, whatever add_timer and cancel calls came before
\* the check.
C23_CheckFiresAllDueTimers ==
    (IsCheckTimers /\ ~lastCall.raised) =>
        /\ \A i \in 1 .. Len(timers) :
               \/ timer_objects[timers[i]].canceled
               \/ timer_objects[timers[i]].end > lastCall.now
        /\ \A k \in 1 .. Len(lastCall.fired) :
               timer_objects[lastCall.fired[k]].end <= lastCall.now
        /\ \A k \in 1 .. Len(lastCall.fired) - 1 :
               timer_objects[lastCall.fired[k]].end
                   <= timer_objects[lastCall.fired[k + 1]].end

\* C24: a cancelled timer is discarded without firing: once cancel() has
\* been called on a timer its ended-callback is never invoked, neither by a
\* timer check nor when the reactor drains its timers at shutdown.
C24_CancelledTimerNeverFires ==
    \A k \in 1 .. Len(timerLog) :
        timerLog[k].callback = "timer_ended_cb" => ~timerLog[k].canceled

----------------------------------------------------------------------------
(* Properties of the reactor's shutdown, checked under SpecReactor.        *)

IsReactorShutdown == lastCall.op = "reactor_shutdown"

NewTimerLog == SubSeq(timerLog', Len(timerLog) + 1, Len(timerLog'))

\* C26: on reactor shutdown the timer queue is drained: when the reactor
\* thread ends after shutdown, every timer still queued is removed and
\* notified through its cancel callback, not through the callback of a
\* reached deadline, and the queue is empty once the thread has ended.
C26_ShutdownDrainsTimers ==
    [][(reactor_thread = "running" /\ reactor_thread' = "exited" /\ ~reactor_is_live)
           => /\ timers' = <<>>
              /\ {NewTimerLog[k].timer : k \in 1 .. Len(NewTimerLog)} = Range(timers)
              /\ \A k \in 1 .. Len(NewTimerLog) :
                     NewTimerLog[k].callback = "timer_canceled_cb"]_vars

----------------------------------------------------------------------------
(* Properties of a connection's writes, checked under SpecConnectionWrites. *)

\* C27: on a newly opened connection the first three bytes handed to the
\* socket are the preamble "CP2", complete and in order, before any byte of
\* a frame, for every interleaving of _write calls and writable events and
\* every partial send.
C27_PreambleFirst ==
    \A i \in 1 .. Len(socket_bytes) :
        IF i <= Len(CP2) THEN socket_bytes[i] = CP2[i]
        ELSE socket_bytes[i].of # "CP2"

\* The _write of producer u had returned before that of producer t was
\* called.
WrittenAfter(t, u) == u \in threads[t].after

\* C28: within one connection frames are written to the socket in submit
\* order: if _write(a) has returned before _write(b) is called, every byte
\* of a is handed to the socket before any byte of b, for every interleaving
\* of the producers with the reactor's handle_write and every partial send.
C28_FramesInSubmitOrder ==
    \A t \in Producers, u \in Producers :
        WrittenAfter(t, u) =>
            \A i \in 1 .. Len(socket_bytes) :
                socket_bytes[i].of = t =>
                    \A at \in 1 .. FrameLen :
                        \E j \in 1 .. i - 1 : socket_bytes[j] = Byte(u, at)

----------------------------------------------------------------------------
(* Properties of a connection's read and write events, checked under       *)
(* SpecConnectionEvents.                                                   *)

IsConnectionEvent == lastCall.op \in {"handle_read", "handle_write"}

\* The would-block codes of a socket error, which are not errors of the
\* connection.
IsWouldBlock(error) ==
    /\ error.type \in {"socket.error", "ssl.SSLError"}
    /\ error.errno \in {"EAGAIN", "EDEADLK"}

\* What the event brought is an error of the connection: the close of the
\* peer or an exception other than a would-block socket error.
IsConnectionError(outcome) ==
    \/ outcome.kind = "closed"
    \/ outcome.kind = "raised" /\ ~IsWouldBlock(outcome.error)

\* C29: a read or write event that ends with a connection-level error (a
\* close by the peer, a socket error other than EAGAIN and EDEADLK, subclasses
\* of socket.error included, or a frame parse failure) leaves the connection
\* closed, never live, with the error as the cause of the close.
C29_ConnectionErrorsClose ==
    (IsConnectionEvent /\ IsConnectionError(lastCall.outcome)) =>
        /\ ~connection_states[TheConnection].live
        /\ connection_states[TheConnection].cause.type = "IOError"
        /\ lastCall.outcome.kind = "raised" =>
               connection_states[TheConnection].cause.error = lastCall.outcome.error


----------------------------------------------------------------------------
(* Properties of the deadline timers of invocations, checked under         *)
(* SpecInvocations.                                                        *)

\* The deadline timer of the invocation with this correlation id has been
\* cancelled.
DeadlineTimerCancelled(correlation_id) ==
    \E timer \in 1 .. Len(timer_objects) :
        /\ timer_objects[timer].timer_ended_cb = Callback("rejects", correlation_id)
        /\ timer_objects[timer].canceled

\* C30: after a timer check of the live reactor, an invocation whose deadline
\* has passed, whose response has not arrived and whose deadline timer nobody
\* cancelled is rejected with OperationTimeoutError and is out of the
\* correlation table, whatever other timers were added or cancelled before;
\* and no future is completed twice, a late response being dropped.
C30_InvocationTimesOut ==
    /\ \A c \in 1 .. Len(invocations) : invocations[c].completions <= 1
    /\ IsCheckTimers =>
           \A c \in 1 .. Len(invocations) :
               (/\ invocations[c].deadline <= lastCall.now
                /\ invocations[c].responses = 0
                /\ ~DeadlineTimerCancelled(c)) =>
                   /\ invocations[c].future = "OperationTimeoutError"
                   /\ ~invocations[c].stored


----------------------------------------------------------------------------
(* Properties of the queue proxy, checked under SpecQueue.                 *)

\* C31: the future of Queue.add(item) completes with True when the item was
\* added and with False when the offer found no space in the queue; it does
\* not fail.
C31_AddYieldsFalseWhenFull ==
    (lastCall.op = "queue_add" /\ lastCall.item # None) =>
        lastCall.completed = Completed(PyBool(lastCall.accepted), None)


----------------------------------------------------------------------------
(* Properties of the TLS context, checked under SpecTLSContext.            *)

\* C32: the TLS context built for a configured protocol has verify_mode
\* CERT_REQUIRED and has the OP_NO_ option of every version other than the
\* configured one that the ssl module has a constant for, also when the ssl
\* module lacks a constant earlier in the list.
C32_OnlyConfiguredProtocol ==
    lastCall.op = "build_ssl_context" =>
        /\ ssl_context.verify_mode = "CERT_REQUIRED"
        /\ \A i \in 1 .. Len(ProtocolOptions) :
               (/\ lastCall.protocol \notin ProtocolOptions[i].unless
                /\ ProtocolOptions[i].option \in lastCall.available) =>
                   ProtocolOptions[i].option \in ssl_context.options


----------------------------------------------------------------------------
(* Properties of a load balancer on the cluster service, checked under     *)
(* SpecBalancer.                                                           *)

BalancerInitialised == BalancerRegistrations(cluster_listeners) # {}

\* C33: once the balancer is initialised, and so after every members view
\* the cluster service has handled, the cached list of the balancer holds
\* exactly the members of the current snapshot, each once; what next() would
\* return at any index is a member of the snapshot, and every member of the
\* snapshot is returned at some index.
C33_BalancerCachesSnapshot ==
    BalancerInitialised =>
        /\ Range(lb_members) = Range(member_list_snapshot.members)
        /\ Len(lb_members) = Len(member_list_snapshot.members)
        /\ \A idx \in 0 .. MaxNextCalls :
               lb_members # <<>> =>
                   RoundRobinMember(lb_members, idx)
                       \in Range(member_list_snapshot.members)
        /\ \A m \in Range(member_list_snapshot.members) :
               \E idx \in 0 .. Len(lb_members) - 1 :
                   RoundRobinMember(lb_members, idx) = m

\* A members view that only removes a member has been handled after the
\* balancer was initialised on a cluster of two, and the balancer holds the
\* member that is left.
C33_Witness ==
    /\ BalancerInitialised
    /\ lastCall.op = "handle_members_view_event"
    /\ lastCall.applied
    /\ \E i \in 1 .. Len(callLog) :
           /\ callLog[i].event = "member_removed"
           /\ callLog[i].listener \in BalancerRegistrations(cluster_listeners)
    /\ \A i \in 1 .. Len(callLog) : callLog[i].event = "member_removed"
    /\ Len(lb_members) = 1
    /\ lb_members = member_list_snapshot.members


----------------------------------------------------------------------------
(* Properties of the aggregators, checked under SpecAggregator.            *)

\* C34: each DistinctValuesAggregator instance has a values collection of
\* its own: the values of two instances are never one and the same set, so
\* that what read_data adds to one instance is not among the values of
\* another and not in what write_data emits for it.
C34_OwnValuesCollection ==
    \A a \in DOMAIN aggregators, b \in DOMAIN aggregators :
        a # b => ValuesOwner(a) # ValuesOwner(b)


----------------------------------------------------------------------------
(* Properties of the timer check, checked under SpecTimerChecks.           *)

\* The number of times the callback of the timer has been invoked.
TimesFired(timer) ==
    Cardinality({k \in 1 .. Len(timerLog) : timerLog[k].timer = timer})

\* C35: the ended-callback of a timer is invoked at most once, and the entry
\* that get_nowait takes off the queue after a timer has been checked is the
\* entry of that timer, also when the callback has added or cancelled a
\* timer and when another thread has added or cancelled one meanwhile.
C35_FiredOnceAndRemoved ==
    /\ \A timer \in 1 .. Len(timer_objects) : TimesFired(timer) <= 1
    /\ checking.pc = "get" =>
           /\ timers # <<>>
           /\ timers[1] = checking.timer


----------------------------------------------------------------------------
(* Properties of cancelling a timer, checked under SpecTimers.             *)

\* The timer has an entry in the queue.
IsQueued(timer) == \E i \in 1 .. Len(timers) : timers[i] = timer

\* C36: cancelling a timer affects that timer alone: a timer that was added,
\* has not been cancelled itself and has not fired yet is in the queue,
\* whatever timers were cancelled, those with its own deadline included; and
\* after a check of the live reactor in which no callback raised it has
\* fired if its deadline has passed.
C36_CancelAffectsOnlyThatTimer ==
    \A timer \in 1 .. Len(timer_objects) :
        ~timer_objects[timer].canceled =>
            /\ TimesFired(timer) = 0 => IsQueued(timer)
            /\ (/\ IsCheckTimers
                /\ ~lastCall.raised
                /\ timer_objects[timer].end <= lastCall.now) =>
                   TimesFired(timer) >= 1


----------------------------------------------------------------------------
(* The byte stream of a connection, checked under SpecConnectionWrites.    *)

\* C37: the bytes handed to the socket are whole buffers one after another:
\* a byte of a buffer other than its first comes right after the byte before
\* it of the same buffer, so no byte of another buffer stands between two
\* bytes of one, for every interleaving of the callers of _write with
\* handle_write and every partial send.
C37_WholeFrames ==
    \A i \in 1 .. Len(socket_bytes) :
        socket_bytes[i].at > 1 =>
            /\ i > 1
            /\ socket_bytes[i - 1] = Byte(socket_bytes[i].of, socket_bytes[i].at - 1)


----------------------------------------------------------------------------
(* What membership callbacks see, checked under SpecBalancer.              *)

\* C38: the callbacks of a members view run against the snapshot already
\* published: get_members() during a member_removed callback for a member
\* does not hold that member, during a member_added callback it holds the
\* member, and in both get_members() and size() are those of the new view.
C38_CallbacksSeePublishedSnapshot ==
    (lastCall.op = "handle_members_view_event" /\ lastCall.applied) =>
        /\ \A i \in 1 .. Len(callLog) :
               /\ callLog[i].event = "member_removed" =>
                      callLog[i].member \notin Range(GetMembers(lastCall.at_events))
               /\ callLog[i].event = "member_added" =>
                      callLog[i].member \in Range(GetMembers(lastCall.at_events))
        /\ GetMembers(lastCall.at_events) = CreateMembers(lastCall.member_infos, <<>>)
        /\ Size(lastCall.at_events) = Len(CreateMembers(lastCall.member_infos, <<>>))
        /\ lastCall.at_events.version = lastCall.version

\* A view that removes one member and adds another has been published and
\* callbacks for both events have run.
C38_Witness ==
    /\ lastCall.op = "handle_members_view_event"
    /\ lastCall.applied
    /\ \E i \in 1 .. Len(callLog) : callLog[i].event = "member_removed"
    /\ \E i \in 1 .. Len(callLog) : callLog[i].event = "member_added"


----------------------------------------------------------------------------
(* The order of vector clocks, checked under SpecClockOrder.               *)

\* C39: is_after is a strict partial order on the clocks: no clock is after
\* itself, the empty clock included; two clocks are never each after the
\* other; and a clock that is after a second one that is after a third is
\* after the third.  What a call of is_after returned is the relation.
C39_IsAfterStrictPartialOrder ==
    /\ ~IsAfter(EmptyClock, EmptyClock)
    /\ \A a \in OrderedClocks : ~IsAfter(vector_clocks[a], vector_clocks[a])
    /\ \A a \in OrderedClocks, b \in OrderedClocks :
           ~(IsAfter(vector_clocks[a], vector_clocks[b])
               /\ IsAfter(vector_clocks[b], vector_clocks[a]))
    /\ \A a \in OrderedClocks, b \in OrderedClocks, c \in OrderedClocks :
           (IsAfter(vector_clocks[a], vector_clocks[b])
               /\ IsAfter(vector_clocks[b], vector_clocks[c])) =>
                   IsAfter(vector_clocks[a], vector_clocks[c])
    /\ IsIsAfter =>
           /\ lastCall.result = IsAfter(vector_clocks[lastCall.self],
                                        vector_clocks[lastCall.other])
           /\ lastCall.self = lastCall.other => ~lastCall.result

\* is_after has returned True for the first of three clocks, each after the
\* next, whose middle one holds a replica that neither of the others has a
\* greater timestamp of.
C39_Witness ==
    /\ IsIsAfter
    /\ lastCall.self = "A"
    /\ lastCall.other = "B"
    /\ lastCall.result
    /\ vector_clocks["A"] = ClockOf(2, 1)
    /\ vector_clocks["B"] = ClockOf(1, 1)
    /\ vector_clocks["C"] = ClockOf(0, 1)
    /\ IsAfter(vector_clocks["B"], vector_clocks["C"])
    /\ IsAfter(vector_clocks["A"], vector_clocks["C"])


----------------------------------------------------------------------------
(* The end of the reactor loop, checked under SpecTimers.                   *)

\* C40: whenever the reactor loop stops, by shutdown or because of an
\* uncaught exception (also one raised by a timer callback), the reactor is
\* marked not live and every timer still queued is notified: the step that
\* ends the thread leaves _is_live false and the queue empty, and has
\* invoked a callback of every timer that was queued.
C40_StoppedLoopNotifiesTimers ==
    [][(reactor_thread = "running" /\ reactor_thread' = "exited")
           => /\ ~reactor_is_live'
              /\ timers' = <<>>
              /\ Range(timers) \subseteq
                     {NewTimerLog[k].timer : k \in 1 .. Len(NewTimerLog)}]_vars


====
